---- MODULE Spec2Model ----
(***************************************************************************)
(* Quill: the action dispatcher (app/application.py, class QuillApp), the  *)
(* clipboard exchange service (app/text_processor.py) and the request      *)
(* worker thread, as one state machine.                                    *)
(*                                                                         *)
(* Threads of the program and how they appear here:                        *)
(*   - the Qt main thread runs one slot at a time; a slot is one action,   *)
(*     except that TextProcessor._start_operation may block in             *)
(*     QThread.wait() until the previous exchange thread has finished      *)
(*     (variable starting).  Signals emitted by the other threads wait in  *)
(*     eventQueue and are delivered in the order they were posted.  An     *)
(*     activation signal (hotkey_pressed, quick_hotkey_pressed) is also    *)
(*     delivered in posting order; since the listener may post it at any   *)
(*     moment, its delivery is one action that runs ahead of the signals   *)
(*     posted after it (at most MaxQueue of them);                         *)
(*   - each threading.Thread started by _on_action_requested is an entry   *)
(*     of aiThreads and runs _process_ai_request step by step;             *)
(*   - the QThread of the current TextWorker is the record worker.         *)
(* Texts are finite sequences of characters, so that str.rstrip() and the  *)
(* comparison of clipboard contents are computed, not assumed.             *)
(***************************************************************************)
EXTENDS Integers, Sequences, FiniteSets, TLC

VARIABLES
    _ai_request_in_progress,   \* QuillApp._ai_request_in_progress (RequestInFlight)
    _extraction_in_progress,   \* QuillApp._extraction_in_progress (ExtractionInFlight)
    _quick_mode,               \* QuillApp._quick_mode (QuickModeFlag)
    _last_prompt_key,          \* QuillApp._last_prompt_key (PendingAction, key)
    _last_instruction,         \* QuillApp._last_instruction (PendingAction, instruction)
    prompts,                   \* keys of PromptManager.prompts
    popup,                     \* PopupWindow: visible, selected_text
    eventQueue,                \* queued signals waiting for the main thread
    aiThreads,                 \* live threads running _process_ai_request
    worker,                    \* TextProcessor._thread / _worker
    orphan,                    \* a TextWorker thread that outlived QThread.wait(1000)
    starting,                  \* main thread blocked inside _start_operation
    clipboard,                 \* the system clipboard (text)
    teardown,                  \* calls made so far by _on_quit_requested, in order
    is_active,                 \* HotkeyManager.is_active
    _quick_hotkey_timestamp,   \* HotkeyManager._quick_hotkey_timestamp (ms)
    now,                       \* time.time() (ms)
    emitted,                   \* what the last call of the HotkeyManager did
    hotkey,                    \* HotkeyManager.hotkey
    quick_hotkey,              \* HotkeyManager.quick_hotkey ("" when disabled)
    listener,                  \* HotkeyManager.listener
    registered,                \* the chord tables of the listeners running at the OS
    startup,                   \* calls made so far by main() and QuillApp.__init__, in order
    client,                    \* OAICompatibleProvider.client (httpx.Client)
    lock,                      \* the lock file, and the SingleInstanceLock of each process
    out                        \* the slot the main thread ran in the last step, and the calls it made

vars == <<_ai_request_in_progress, _extraction_in_progress, _quick_mode,
          _last_prompt_key, _last_instruction, prompts, popup, eventQueue,
          aiThreads, worker, orphan, starting, clipboard, teardown,
          is_active, _quick_hotkey_timestamp, now, emitted,
          hotkey, quick_hotkey, listener, registered, startup, client, lock, out>>

\* The variables of the HotkeyManager and its clock.
registration == <<hotkey, quick_hotkey, listener, registered>>

hotkey_manager == <<is_active, _quick_hotkey_timestamp, now, emitted, registration>>

----------------------------------------------------------------------------
(* Bounds and sample data *)

\* Signals posted by other threads after an activation signal and still
\* waiting when that activation is delivered.
MaxQueue == 1

\* Prompt keys the popup's buttons emit (two of the five buttons).
PopupKeys == {"grammar_check", "custom"}

\* Key sets the prompt files may define: all popup keys, or "custom" missing.
PromptFiles == {{"grammar_check", "custom"}, {"grammar_check"}}

\* Custom instruction typed into the popup (stripped).
Instructions == {"", "shorter"}

\* What the foreground application has selected when Ctrl+C is synthesized.
Selections == {<< >>, <<"h">>}

\* Clipboard content before the tool is first used.
InitialClipboard == <<"o">>

\* Texts the remote service may return; one ends in white space.
Responses == {<<"H">>, <<"H", " ">>}

\* Failure categories of OAICompatibleProvider.complete.
Failures == {"timeout"}

Whitespace == {" ", "\n", "\t"}

\* time.time() in ms when the HotkeyManager is created (seconds since 1970:
\* far more than the suppression window).
StartTimes == {1000}

\* No hotkey callback has run.
NoCallback == [callback |-> "", did |-> ""]

\* Python's None as an argument of start and set_hotkeys.
None == "None"

\* Chord strings the configuration may hold for the primary and the quick hotkey.
PrimaryChords == {"<ctrl>+<space>", "<alt>+q"}
QuickChords == {"", "<ctrl>+<alt>+<space>"}

\* Processes that may run main(); a process that has exited may be started
\* again.
Procs == {1, 2}

\* Lock files created in one run (each open of an absent path creates one).
MaxFiles == 3

\* main() has not been entered: SingleInstanceLock.lock_file is None.
NotStarted == [pc |-> "exited", lock_file |-> 0]

\* The first instance is running: it holds the lock on the file that
\* data/quill.lock names.
FirstInstance ==
    [platform |-> "win32",
     path |-> 1,
     files |-> 1,
     holder |-> [f \in 1..MaxFiles |-> IF f = 1 THEN 1 ELSE 0],
     proc |-> [p \in Procs |-> IF p = 1 THEN [pc |-> "running", lock_file |-> 1]
                                ELSE NotStarted]]

\* OAICompatibleProvider.client is None.
NoClient == [id |-> 0, is_closed |-> FALSE]

\* The httpx.Client that _start_app's call of configure created.
FirstClient == [id |-> 1, is_closed |-> FALSE]

\* HotkeyManager.listener is None.
NoListener == [hotkeys |-> {}, running |-> FALSE]

\* hotkeys_dict of HotkeyManager.start: chord -> callback, as a set of pairs;
\* an equal quick chord overwrites the primary entry.
hotkeys_dict(primary, quick) ==
    {<<primary, "_on_hotkey_activated">> : x \in IF quick = primary THEN {} ELSE {1}}
        \cup {<<quick, "_on_quick_hotkey_activated">> : x \in IF quick = "" THEN {} ELSE {1}}

----------------------------------------------------------------------------
(* Pure helpers *)

RECURSIVE rstrip(_)
\* str.rstrip(): drop trailing white space.
rstrip(s) ==
    IF s = << >> THEN s
    ELSE IF s[Len(s)] \in Whitespace THEN rstrip(SubSeq(s, 1, Len(s) - 1))
    ELSE s

\* A call made by a step: callee and arguments.
Call(fn, key, text, instruction) ==
    [fn |-> fn, key |-> key, text |-> text, instruction |-> instruction]

Call0(fn) == Call(fn, "", << >>, "")

\* logger.debug / logger.warning with the message msg.
Log(msg) == Call("logger", msg, << >>, "")

\* A queued signal: its name and its argument.
Signal(sig, arg) == [sig |-> sig, arg |-> arg]

\* PromptManager.get_prompt_info(key) is truthy.
get_prompt_info(prompt_key) == prompt_key \in prompts

\* The QuillApp fields a slot reads and writes, with the calls made so far.
self ==
    [_ai_request_in_progress |-> _ai_request_in_progress,
     _extraction_in_progress |-> _extraction_in_progress,
     _quick_mode |-> _quick_mode,
     _last_prompt_key |-> _last_prompt_key,
     _last_instruction |-> _last_instruction,
     calls |-> {}]

Calling(s, c) == [s EXCEPT !.calls = @ \cup {c}]

----------------------------------------------------------------------------
(* Variants of the code with one guard or assignment changed.  No action uses
   them; each property below is also checked against a variant, to see that it
   is the code that makes it hold. *)

\* _on_action_requested without the check of _ai_request_in_progress.
_on_action_requested_unguarded(s, prompt_key, text, instruction) ==
    Calling([s EXCEPT !._ai_request_in_progress = TRUE,
                      !._last_prompt_key = prompt_key,
                      !._last_instruction = instruction],
            Call("Thread.start", prompt_key, text, instruction))

\* _on_action_requested remembering the action before the check.
_on_action_requested_remembers(s, prompt_key, text, instruction) ==
    IF s._ai_request_in_progress
    THEN Calling([s EXCEPT !._last_prompt_key = prompt_key,
                           !._last_instruction = instruction],
                 Log("AI request already in progress, ignoring"))
    ELSE Calling([s EXCEPT !._ai_request_in_progress = TRUE,
                           !._last_prompt_key = prompt_key,
                           !._last_instruction = instruction],
                 Call("Thread.start", prompt_key, text, instruction))

\* _on_hotkey_pressed without the check of _extraction_in_progress.
_on_hotkey_pressed_unguarded(s) ==
    IF s._ai_request_in_progress
    THEN Calling(s, Log("AI request in progress, ignoring hotkey"))
    ELSE Calling([s EXCEPT !._quick_mode = FALSE,
                           !._extraction_in_progress = TRUE],
                 Call0("extract_selected_text"))

\* _on_quick_hotkey_pressed starting an extraction although one is running.
_on_quick_hotkey_pressed_restarts(s) ==
    IF s._ai_request_in_progress
    THEN Calling(s, Log("AI request in progress, ignoring quick hotkey"))
    ELSE IF s._last_prompt_key = ""
    THEN Calling(Calling([s EXCEPT !._quick_mode = FALSE,
                                   !._extraction_in_progress = TRUE],
                         Log("No previous action, falling back to normal popup")),
                 Call0("extract_selected_text"))
    ELSE IF ~get_prompt_info(s._last_prompt_key)
    THEN Calling(Calling([s EXCEPT !._extraction_in_progress = TRUE],
                         Call("show_message", s._last_prompt_key, << >>, "")),
                 Call0("extract_selected_text"))
    ELSE Calling([s EXCEPT !._quick_mode = TRUE,
                           !._extraction_in_progress = TRUE],
                 Call0("extract_selected_text"))

\* _do_replace_text stripping the response before it hands it on.
_do_replace_text_stripped(s, response) ==
    Calling(s, Call("replace_text", "", rstrip(response), ""))

----------------------------------------------------------------------------
(* Slots of QuillApp: each maps the fields before to the fields after *)

\* QuillApp._on_hotkey_pressed
_on_hotkey_pressed(s) ==
    IF s._ai_request_in_progress
    THEN Calling(s, Log("AI request in progress, ignoring hotkey"))
    ELSE IF s._extraction_in_progress
    THEN Calling(s, Log("Extraction in progress, ignoring main hotkey"))
    ELSE Calling([s EXCEPT !._quick_mode = FALSE,
                           !._extraction_in_progress = TRUE],
                 Call0("extract_selected_text"))

\* A variant of _on_quick_hotkey_pressed that sets _quick_mode before it
\* looks the remembered key up.
_on_quick_hotkey_pressed_marks(s) ==
    IF s._ai_request_in_progress
    THEN Calling(s, Log("AI request in progress, ignoring quick hotkey"))
    ELSE IF s._last_prompt_key = ""
    THEN Calling(Calling([s EXCEPT !._quick_mode = FALSE,
                                   !._extraction_in_progress = TRUE],
                         Log("No previous action, falling back to normal popup")),
                 Call0("extract_selected_text"))
    ELSE IF ~get_prompt_info(s._last_prompt_key)
    THEN Calling([s EXCEPT !._quick_mode = TRUE, !._last_prompt_key = ""],
                 Call("show_message", s._last_prompt_key, << >>, ""))
    ELSE IF s._extraction_in_progress
    THEN Calling([s EXCEPT !._quick_mode = TRUE],
                 Log("Extraction already in progress, will use its result in quick mode"))
    ELSE Calling([s EXCEPT !._quick_mode = TRUE,
                           !._extraction_in_progress = TRUE],
                 Call0("extract_selected_text"))

\* QuillApp._on_quick_hotkey_pressed
_on_quick_hotkey_pressed(s) ==
    IF s._ai_request_in_progress
    THEN Calling(s, Log("AI request in progress, ignoring quick hotkey"))
    ELSE IF s._last_prompt_key = ""
    THEN Calling(Calling([s EXCEPT !._quick_mode = FALSE,
                                   !._extraction_in_progress = TRUE],
                         Log("No previous action, falling back to normal popup")),
                 Call0("extract_selected_text"))
    ELSE IF ~get_prompt_info(s._last_prompt_key)
    THEN Calling([s EXCEPT !._last_prompt_key = ""],
                 Call("show_message", s._last_prompt_key, << >>, ""))
    ELSE IF s._extraction_in_progress
    THEN Calling([s EXCEPT !._quick_mode = TRUE],
                 Log("Extraction already in progress, will use its result in quick mode"))
    ELSE Calling([s EXCEPT !._quick_mode = TRUE,
                           !._extraction_in_progress = TRUE],
                 Call0("extract_selected_text"))

\* QuillApp._on_action_requested
_on_action_requested(s, prompt_key, text, instruction) ==
    IF s._ai_request_in_progress
    THEN Calling(s, Log("AI request already in progress, ignoring"))
    ELSE Calling([s EXCEPT !._ai_request_in_progress = TRUE,
                           !._last_prompt_key = prompt_key,
                           !._last_instruction = instruction],
                 Call("Thread.start", prompt_key, text, instruction))

\* A variant that leaves _quick_mode as it is when no text was selected.
_on_text_extracted_keeps(s, text) ==
    LET s1 == [s EXCEPT !._extraction_in_progress = FALSE]
    IN  IF text = << >>
        THEN Calling(s1, Log("No text selected, ignoring hotkey"))
        ELSE IF s1._quick_mode
        THEN _on_action_requested(
                 Calling([s1 EXCEPT !._quick_mode = FALSE], Log("Quick mode: executing")),
                 s1._last_prompt_key, text, s1._last_instruction)
        ELSE Calling(s1, Call("show_at_position", "", text, ""))

\* A variant that forgets the remembered action when no text was selected.
_on_text_extracted_forgets(s, text) ==
    LET s1 == [s EXCEPT !._extraction_in_progress = FALSE]
    IN  IF text = << >>
        THEN Calling([s1 EXCEPT !._quick_mode = FALSE, !._last_prompt_key = ""],
                     Log("No text selected, ignoring hotkey"))
        ELSE IF s1._quick_mode
        THEN _on_action_requested(
                 Calling([s1 EXCEPT !._quick_mode = FALSE], Log("Quick mode: executing")),
                 s1._last_prompt_key, text, s1._last_instruction)
        ELSE Calling(s1, Call("show_at_position", "", text, ""))

\* A variant that shows the popup for a quick activation's text too.
_on_text_extracted_shows(s, text) ==
    LET s1 == [s EXCEPT !._extraction_in_progress = FALSE]
    IN  IF text = << >>
        THEN Calling([s1 EXCEPT !._quick_mode = FALSE],
                     Log("No text selected, ignoring hotkey"))
        ELSE Calling([s1 EXCEPT !._quick_mode = FALSE],
                     Call("show_at_position", "", text, ""))

\* QuillApp._on_text_extracted
_on_text_extracted(s, text) ==
    LET s1 == [s EXCEPT !._extraction_in_progress = FALSE]
    IN  IF text = << >>
        THEN Calling([s1 EXCEPT !._quick_mode = FALSE],
                     Log("No text selected, ignoring hotkey"))
        ELSE IF s1._quick_mode
        THEN _on_action_requested(
                 Calling([s1 EXCEPT !._quick_mode = FALSE], Log("Quick mode: executing")),
                 s1._last_prompt_key, text, s1._last_instruction)
        ELSE Calling(s1, Call("show_at_position", "", text, ""))

\* QuillApp._do_replace_text
_do_replace_text(s, response) ==
    Calling(s, Call("replace_text", "", response, ""))

\* QuillApp._show_error_dialog
_show_error_dialog(s, message) ==
    Calling(s, Call("QMessageBox.critical", "", message, ""))

----------------------------------------------------------------------------
(* Carrying out a slot's result *)

NoStart == [operation |-> "none", replacement_text |-> << >>]

\* TextProcessor._thread is None, or its thread has finished.
NoWorker ==
    [pc |-> "finished", operation |-> "none", replacement_text |-> << >>,
     original_clipboard |-> << >>, selected_text |-> << >>]

\* TextProcessor._start_operation: the new TextWorker and QThread.
NewWorker(operation, replacement_text) ==
    [pc |-> "run", operation |-> operation, replacement_text |-> replacement_text,
     original_clipboard |-> << >>, selected_text |-> << >>]

\* TextProcessor._start_operation with _cleanup_previous: when the previous
\* thread is still running the main thread waits for it (QThread.wait).
\* (The 1000 ms limit of the wait is not modelled: an operation sleeps 100 ms.)
_start_operation(operation, replacement_text) ==
    IF worker.pc # "finished"
    THEN /\ starting' = [operation |-> operation, replacement_text |-> replacement_text]
         /\ UNCHANGED worker
    ELSE /\ worker' = NewWorker(operation, replacement_text)
         /\ UNCHANGED starting

\* threading.Thread(target=self._process_ai_request, args=...).start()
NewThread(c) == [pc |-> "start", prompt_key |-> c.key, result |-> << >>]

Calls(cs, fn) == {c \in cs : c.fn = fn}

\* out after a step that is no slot of the main thread.
Quiet == [slot |-> "", calls |-> {}]

\* The state after a slot of the main thread that returned the fields s:
\* the fields are stored and the calls it made take effect.
Perform(slot, s) ==
    /\ _ai_request_in_progress' = s._ai_request_in_progress
    /\ _extraction_in_progress' = s._extraction_in_progress
    /\ _quick_mode' = s._quick_mode
    /\ _last_prompt_key' = s._last_prompt_key
    /\ _last_instruction' = s._last_instruction
    /\ aiThreads' =
          IF Calls(s.calls, "Thread.start") = {} THEN aiThreads
          ELSE Append(aiThreads, NewThread(CHOOSE c \in Calls(s.calls, "Thread.start") : TRUE))
    /\ IF Calls(s.calls, "extract_selected_text") # {}
       THEN _start_operation("extract", << >>)
       ELSE IF Calls(s.calls, "replace_text") # {}
       THEN _start_operation("replace",
                (CHOOSE c \in Calls(s.calls, "replace_text") : TRUE).text)
       ELSE UNCHANGED <<worker, starting>>
    /\ popup' =
          IF Calls(s.calls, "show_at_position") # {}
          THEN [visible |-> TRUE,
                selected_text |-> (CHOOSE c \in Calls(s.calls, "show_at_position") : TRUE).text]
          ELSE IF Calls(s.calls, "hide") # {}
          THEN [popup EXCEPT !.visible = FALSE]
          ELSE popup
    /\ out' = [slot |-> slot, calls |-> s.calls]
    /\ UNCHANGED <<prompts, clipboard, orphan, teardown, hotkey_manager, startup, client, lock>>

\* The main thread is not inside a slot, and the application has not quit.
MainThreadFree == starting = NoStart /\ teardown = << >>

----------------------------------------------------------------------------
(* Actions of the main thread *)

\* hotkey_pressed (HotkeyManager._on_hotkey_activated) is delivered.
HandleHotkey ==
    /\ MainThreadFree
    /\ Len(eventQueue) <= MaxQueue
    /\ Perform("_on_hotkey_pressed", _on_hotkey_pressed(self))
    /\ UNCHANGED eventQueue

\* quick_hotkey_pressed (HotkeyManager._on_quick_hotkey_activated) is delivered.
HandleQuickHotkey ==
    /\ MainThreadFree
    /\ Len(eventQueue) <= MaxQueue
    /\ Perform("_on_quick_hotkey_pressed", _on_quick_hotkey_pressed(self))
    /\ UNCHANGED eventQueue

\* The main thread takes the oldest queued signal (QuillApp._connect_signals
\* names the slot connected to it).
Deliver(sig) ==
    /\ MainThreadFree
    /\ eventQueue # << >>
    /\ Head(eventQueue).sig = sig
    /\ eventQueue' = Tail(eventQueue)

\* TextProcessor.text_extracted -> QuillApp._on_text_extracted
HandleTextExtracted ==
    /\ Deliver("text_extracted")
    /\ Perform("_on_text_extracted", _on_text_extracted(self, Head(eventQueue).arg))

\* QuillApp._replace_text_signal -> QuillApp._do_replace_text
HandleReplaceText ==
    /\ Deliver("_replace_text_signal")
    /\ Perform("_do_replace_text", _do_replace_text(self, Head(eventQueue).arg))

\* QuillApp.error_occurred -> QuillApp._show_error_dialog
HandleError ==
    /\ Deliver("error_occurred")
    /\ Perform("_show_error_dialog", _show_error_dialog(self, Head(eventQueue).arg))

\* PopupWindow._emit_action: the user picks an action in the visible popup;
\* action_requested runs _on_action_requested at once, then the popup hides.
_emit_action ==
    /\ MainThreadFree
    /\ popup.visible
    /\ \E prompt_key \in PopupKeys, instruction \in Instructions :
          Perform("_emit_action",
                  Calling(_on_action_requested(self, prompt_key, popup.selected_text, instruction),
                          Call0("hide")))
    /\ UNCHANGED eventQueue

\* PopupWindow.keyPressEvent (ESC), or a click outside the Qt.Popup window.
PopupClose ==
    /\ MainThreadFree
    /\ popup.visible
    /\ popup' = [popup EXCEPT !.visible = FALSE]
    /\ out' = Quiet
    /\ UNCHANGED <<_ai_request_in_progress, _extraction_in_progress, _quick_mode,
                   _last_prompt_key, _last_instruction, prompts, eventQueue,
                   aiThreads, worker, orphan, starting, clipboard, teardown,
                   hotkey_manager, startup, client, lock>>

\* TextProcessor._cleanup_previous returns from QThread.wait(): the previous
\* thread has finished and the operation the main thread asked for starts.
CleanupDone ==
    /\ starting # NoStart
    /\ worker.pc = "finished"
    /\ worker' = NewWorker(starting.operation, starting.replacement_text)
    /\ starting' = NoStart
    /\ out' = Quiet
    /\ UNCHANGED <<_ai_request_in_progress, _extraction_in_progress, _quick_mode,
                   _last_prompt_key, _last_instruction, prompts, popup, eventQueue,
                   aiThreads, orphan, clipboard, teardown, hotkey_manager, startup, client, lock>>

----------------------------------------------------------------------------
(* The request thread: QuillApp._process_ai_request *)

Remove(seq, i) == SubSeq(seq, 1, i - 1) \o SubSeq(seq, i + 1, Len(seq))

ThreadFrame ==
    UNCHANGED <<_extraction_in_progress, _quick_mode, _last_prompt_key,
                _last_instruction, prompts, popup, worker, orphan, starting,
                clipboard, teardown, hotkey_manager, startup, client, lock>>

\* A variant of the code: get_messages falls back to an empty template for
\* an unknown prompt key, and the remote call is made.
ThreadGetMessages_calls ==
    \E i \in DOMAIN aiThreads :
        /\ aiThreads[i].pc = "start"
        /\ aiThreads' = [aiThreads EXCEPT ![i].pc = "complete"]
        /\ out' = Quiet
        /\ UNCHANGED <<_ai_request_in_progress, eventQueue>>
        /\ ThreadFrame

\* try: prompt_manager.get_messages(...), then ai_provider.complete(...) is
\* called; an unknown prompt key raises ValueError instead.
ThreadGetMessages ==
    \E i \in DOMAIN aiThreads :
        /\ aiThreads[i].pc = "start"
        /\ aiThreads' =
              IF get_prompt_info(aiThreads[i].prompt_key)
              THEN [aiThreads EXCEPT ![i].pc = "complete"]
              ELSE [aiThreads EXCEPT ![i].pc = "except", ![i].result = <<"ValueError">>]
        /\ out' = Quiet
        /\ UNCHANGED <<_ai_request_in_progress, eventQueue>>
        /\ ThreadFrame

\* ai_provider.complete returns the response text.
ThreadCompleteReturns ==
    \E i \in DOMAIN aiThreads, response \in Responses :
        /\ aiThreads[i].pc = "complete"
        /\ aiThreads' = [aiThreads EXCEPT ![i].pc = "returned", ![i].result = response]
        /\ out' = Quiet
        /\ UNCHANGED <<_ai_request_in_progress, eventQueue>>
        /\ ThreadFrame

\* A variant of the code: the call is made again when it raises.
ThreadCompleteRaises_retries ==
    \E i \in DOMAIN aiThreads, category \in Failures :
        /\ aiThreads[i].pc = "complete"
        /\ aiThreads' = [aiThreads EXCEPT ![i].pc = "start"]
        /\ out' = Quiet
        /\ UNCHANGED <<_ai_request_in_progress, eventQueue>>
        /\ ThreadFrame

\* ai_provider.complete raises RuntimeError.
ThreadCompleteRaises ==
    \E i \in DOMAIN aiThreads, category \in Failures :
        /\ aiThreads[i].pc = "complete"
        /\ aiThreads' = [aiThreads EXCEPT ![i].pc = "except", ![i].result = <<category>>]
        /\ out' = Quiet
        /\ UNCHANGED <<_ai_request_in_progress, eventQueue>>
        /\ ThreadFrame

\* self._replace_text_signal.emit(response): queued for the main thread.
ThreadEmitReplace ==
    \E i \in DOMAIN aiThreads :
        /\ aiThreads[i].pc = "returned"
        /\ eventQueue' = Append(eventQueue, Signal("_replace_text_signal", aiThreads[i].result))
        /\ aiThreads' = [aiThreads EXCEPT ![i].pc = "finally", ![i].result = << >>]
        /\ out' = Quiet
        /\ UNCHANGED _ai_request_in_progress
        /\ ThreadFrame

\* A variant of the code: the flag is cleared after the call, not in a finally
\* clause, so the except clause ends the thread with the flag still set.
ThreadEmitError_leaves ==
    \E i \in DOMAIN aiThreads :
        /\ aiThreads[i].pc = "except"
        /\ eventQueue' = Append(eventQueue, Signal("error_occurred", aiThreads[i].result))
        /\ aiThreads' = Remove(aiThreads, i)
        /\ out' = Quiet
        /\ UNCHANGED _ai_request_in_progress
        /\ ThreadFrame

\* A variant of the code: the except clause also forgets the remembered
\* action, from the request thread.
ThreadEmitError_clears ==
    \E i \in DOMAIN aiThreads :
        /\ aiThreads[i].pc = "except"
        /\ eventQueue' = Append(eventQueue, Signal("error_occurred", aiThreads[i].result))
        /\ aiThreads' = [aiThreads EXCEPT ![i].pc = "finally", ![i].result = << >>]
        /\ _last_prompt_key' = ""
        /\ out' = Quiet
        /\ UNCHANGED <<_ai_request_in_progress, _extraction_in_progress, _quick_mode,
                       _last_instruction, prompts, popup, worker, orphan, starting,
                       clipboard, teardown, hotkey_manager, startup, client, lock>>

\* except Exception: self.error_occurred.emit(...): queued for the main thread.
ThreadEmitError ==
    \E i \in DOMAIN aiThreads :
        /\ aiThreads[i].pc = "except"
        /\ eventQueue' = Append(eventQueue, Signal("error_occurred", aiThreads[i].result))
        /\ aiThreads' = [aiThreads EXCEPT ![i].pc = "finally", ![i].result = << >>]
        /\ out' = Quiet
        /\ UNCHANGED _ai_request_in_progress
        /\ ThreadFrame

\* finally: with self._ai_request_lock: self._ai_request_in_progress = False
ThreadFinally ==
    \E i \in DOMAIN aiThreads :
        /\ aiThreads[i].pc = "finally"
        /\ _ai_request_in_progress' = FALSE
        /\ aiThreads' = Remove(aiThreads, i)
        /\ out' = Quiet
        /\ UNCHANGED eventQueue
        /\ ThreadFrame

----------------------------------------------------------------------------
(* The exchange thread: TextWorker.run *)

WorkerFrame ==
    UNCHANGED <<_ai_request_in_progress, _extraction_in_progress, _quick_mode,
                _last_prompt_key, _last_instruction, prompts, popup,
                aiThreads, starting, teardown, hotkey_manager, startup, client, lock>>

\* The exchange threads that may be running: the current one (worker) and
\* one that _cleanup_previous gave up waiting for (orphan).
Workers == {"worker", "orphan"}

TextWorker(who) == IF who = "worker" THEN worker ELSE orphan

\* The thread who goes on as w.
Becomes(who, w) ==
    IF who = "worker" THEN worker' = w /\ UNCHANGED orphan
    ELSE orphan' = w /\ UNCHANGED worker

\* TextWorker._extract, steps 1 and 2: snapshot the clipboard, then Ctrl+C
\* makes the foreground application copy its selection, if it has one.
ExtractCopy ==
    \E who \in Workers :
        /\ TextWorker(who).pc = "run" /\ TextWorker(who).operation = "extract"
        /\ \E selection \in Selections :
              /\ Becomes(who, [TextWorker(who) EXCEPT !.pc = "sleep",
                                                      !.original_clipboard = clipboard])
              /\ clipboard' = IF selection = << >> THEN clipboard ELSE selection
        /\ out' = Quiet
        /\ UNCHANGED eventQueue
        /\ WorkerFrame

\* TextWorker._extract, steps 4 and 5: read the clipboard, restore the snapshot.
ExtractRead ==
    \E who \in Workers :
        /\ TextWorker(who).pc = "sleep" /\ TextWorker(who).operation = "extract"
        /\ Becomes(who, [TextWorker(who) EXCEPT !.pc = "restored",
                                                !.selected_text = clipboard])
        /\ clipboard' = TextWorker(who).original_clipboard
        /\ out' = Quiet
        /\ UNCHANGED eventQueue
        /\ WorkerFrame

\* A variant that reports what was read without comparing it with the snapshot.
ExtractEmit_unchecked ==
    \E who \in Workers :
        /\ TextWorker(who).pc = "restored" /\ TextWorker(who).operation = "extract"
        /\ eventQueue' = Append(eventQueue,
              Signal("text_extracted", TextWorker(who).selected_text))
        /\ Becomes(who, NoWorker)
        /\ out' = Quiet
        /\ UNCHANGED clipboard
        /\ WorkerFrame

\* TextWorker._extract, step 6: text_extracted.emit; then run() ends.
ExtractEmit ==
    \E who \in Workers :
        /\ TextWorker(who).pc = "restored" /\ TextWorker(who).operation = "extract"
        /\ eventQueue' = Append(eventQueue,
              Signal("text_extracted",
                     IF TextWorker(who).selected_text # TextWorker(who).original_clipboard
                     THEN TextWorker(who).selected_text ELSE << >>))
        /\ Becomes(who, NoWorker)
        /\ out' = Quiet
        /\ UNCHANGED clipboard
        /\ WorkerFrame

\* A variant whose except clause notifies the user of the error instead.
ExtractRaises_notifies ==
    \E who \in Workers :
        /\ TextWorker(who).pc \in {"run", "sleep"}
        /\ TextWorker(who).operation = "extract"
        /\ eventQueue' = Append(eventQueue, Signal("error_occurred", <<"Exception">>))
        /\ Becomes(who, NoWorker)
        /\ out' = Quiet
        /\ UNCHANGED clipboard
        /\ WorkerFrame

\* TextWorker._extract, except clause: a clipboard or keyboard call raised;
\* the empty text is emitted and the snapshot is not restored.
ExtractRaises ==
    \E who \in Workers :
        /\ TextWorker(who).pc \in {"run", "sleep"}
        /\ TextWorker(who).operation = "extract"
        /\ eventQueue' = Append(eventQueue, Signal("text_extracted", << >>))
        /\ Becomes(who, NoWorker)
        /\ out' = Quiet
        /\ UNCHANGED clipboard
        /\ WorkerFrame

\* TextWorker._replace, steps 1 and 2: snapshot the clipboard, copy the
\* replacement text with trailing white space removed.
ReplaceCopy ==
    \E who \in Workers :
        /\ TextWorker(who).pc = "run" /\ TextWorker(who).operation = "replace"
        /\ Becomes(who, [TextWorker(who) EXCEPT !.pc = "sleep",
                                                !.original_clipboard = clipboard])
        /\ clipboard' = rstrip(TextWorker(who).replacement_text)
        /\ out' = Quiet
        /\ UNCHANGED eventQueue
        /\ WorkerFrame

\* TextWorker._replace, step 4: Ctrl+V is synthesized.
ReplacePaste ==
    \E who \in Workers :
        /\ TextWorker(who).pc = "sleep" /\ TextWorker(who).operation = "replace"
        /\ Becomes(who, [TextWorker(who) EXCEPT !.pc = "pasted"])
        /\ out' = Quiet
        /\ UNCHANGED <<eventQueue, clipboard>>
        /\ WorkerFrame

\* TextWorker._replace, steps 6 and 7: restore the snapshot, text_replaced.emit
\* (its slot QuillApp._on_text_replaced only logs); then run() ends.
ReplaceRestore ==
    \E who \in Workers :
        /\ TextWorker(who).pc = "pasted" /\ TextWorker(who).operation = "replace"
        /\ clipboard' = TextWorker(who).original_clipboard
        /\ Becomes(who, NoWorker)
        /\ out' = Quiet
        /\ UNCHANGED eventQueue
        /\ WorkerFrame

\* TextWorker._replace, except clause: the first clipboard read (pc "run") or
\* the synthesized paste (pc "sleep") raised; the error is logged and the
\* method returns.
ReplaceRaises ==
    \E who \in Workers :
        /\ TextWorker(who).pc \in {"run", "sleep"}
        /\ TextWorker(who).operation = "replace"
        /\ Becomes(who, NoWorker)
        /\ out' = Quiet
        /\ UNCHANGED <<eventQueue, clipboard>>
        /\ WorkerFrame

----------------------------------------------------------------------------
(* The specification *)

\* QuillApp.__init__ and TextProcessor.__init__, once _start_app has run.
Init ==
    /\ _ai_request_in_progress = FALSE
    /\ _extraction_in_progress = FALSE
    /\ _quick_mode = FALSE
    /\ _last_prompt_key = ""
    /\ _last_instruction = ""
    /\ prompts \in PromptFiles
    /\ popup = [visible |-> FALSE, selected_text |-> << >>]
    /\ eventQueue = << >>
    /\ aiThreads = << >>
    /\ worker = NoWorker
    /\ orphan = NoWorker
    /\ starting = NoStart
    /\ clipboard = InitialClipboard
    /\ teardown = << >>
    /\ is_active = TRUE
    /\ _quick_hotkey_timestamp = 0
    /\ now \in StartTimes
    /\ emitted = NoCallback
    /\ hotkey = "<ctrl>+<space>"
    /\ quick_hotkey = "<ctrl>+<alt>+<space>"
    /\ listener = [hotkeys |-> hotkeys_dict(hotkey, quick_hotkey), running |-> TRUE]
    /\ registered = <<listener.hotkeys>>
    /\ startup = <<"__init__", "_start_app", "create_tray_icon",
                   "_create_popup_window", "exec">>
    /\ client = FirstClient
    /\ lock = FirstInstance
    /\ out = Quiet

Next ==
    \/ HandleHotkey
    \/ HandleQuickHotkey
    \/ HandleTextExtracted
    \/ HandleReplaceText
    \/ HandleError
    \/ _emit_action
    \/ PopupClose
    \/ CleanupDone
    \/ ThreadGetMessages
    \/ ThreadCompleteReturns
    \/ ThreadCompleteRaises
    \/ ThreadEmitReplace
    \/ ThreadEmitError
    \/ ThreadFinally
    \/ ExtractCopy
    \/ ExtractRead
    \/ ExtractEmit
    \/ ExtractRaises
    \/ ReplaceCopy
    \/ ReplacePaste
    \/ ReplaceRestore
    \/ ReplaceRaises

Spec == Init /\ [][Next]_vars

----------------------------------------------------------------------------
(* Properties *)

\* The fields of the dispatcher.
dispatcher == <<_ai_request_in_progress, _extraction_in_progress, _quick_mode,
                _last_prompt_key, _last_instruction>>

\* The step ran the slot named slot on the main thread.
Ran(slot) == out'.slot = slot

\* The step made a call to fn.
Called(fn) == Calls(out'.calls, fn) # {}

\* The step handed a dispatch to _on_action_requested: through the popup's
\* action_requested, or from _on_text_extracted in quick mode.
Dispatched ==
    \/ Ran("_emit_action")
    \/ Ran("_on_text_extracted") /\ Log("Quick mode: executing") \in out'.calls

\* The request threads that are inside ai_provider.complete.
Outstanding == {i \in DOMAIN aiThreads : aiThreads[i].pc = "complete"}

\* C1: at most one remote-completion call is outstanding at any instant: there
\* is never more than one request thread, a request thread exists exactly
\* while _ai_request_in_progress is set, and so no second thread is ever
\* started while the flag is set.
C1_SingleFlight ==
    /\ Cardinality(Outstanding) <= 1
    /\ Len(aiThreads) <= 1
    /\ _ai_request_in_progress <=> aiThreads # << >>

\* C1, its case: a call is outstanding and a dispatch has just been refused.
C1_Witness ==
    /\ Outstanding # {}
    /\ Log("AI request already in progress, ignoring") \in out.calls

\* C2: a dispatch handed to _on_action_requested while _ai_request_in_progress
\* is set does nothing: no thread is started, the remembered action and every
\* other field stay as they are, and nothing is put in a queue for later.
C2_DispatchWhileInFlightIsNoOp ==
    [][(Dispatched /\ _ai_request_in_progress) =>
          /\ ~Called("Thread.start")
          /\ aiThreads' = aiThreads
          /\ _ai_request_in_progress'
          /\ UNCHANGED <<_last_prompt_key, _last_instruction, worker, starting, clipboard>>
          /\ \/ eventQueue' = eventQueue
             \/ eventQueue # << >> /\ eventQueue' = Tail(eventQueue)]_vars

\* C2, its case: the popup's dispatch was refused while an action was remembered.
C2_Witness ==
    /\ out.slot = "_emit_action"
    /\ Log("AI request already in progress, ignoring") \in out.calls
    /\ _ai_request_in_progress
    /\ _last_prompt_key # ""

\* C3: a primary or quick activation handled while _ai_request_in_progress is
\* set, and a primary activation handled while _extraction_in_progress is set,
\* is dropped: no extraction is started and no field of the dispatcher changes.
C3_ActivationDropped ==
    [][(\/ (Ran("_on_hotkey_pressed") \/ Ran("_on_quick_hotkey_pressed"))
              /\ _ai_request_in_progress
        \/ Ran("_on_hotkey_pressed") /\ _extraction_in_progress) =>
          /\ ~Called("extract_selected_text")
          /\ UNCHANGED dispatcher
          /\ UNCHANGED <<worker, starting, aiThreads, popup, eventQueue, clipboard>>]_vars

\* C3, its case: a primary activation was dropped while an extraction was
\* running and the quick mode flag was set.
C3_Witness ==
    /\ out.slot = "_on_hotkey_pressed"
    /\ Log("Extraction in progress, ignoring main hotkey") \in out.calls
    /\ _extraction_in_progress
    /\ _quick_mode

\* The step left the dispatcher's fields as a slot returning s leaves them,
\* and started an extraction exactly if that slot does.
SameEffect(s) ==
    /\ _ai_request_in_progress' = s._ai_request_in_progress
    /\ _extraction_in_progress' = s._extraction_in_progress
    /\ _quick_mode' = s._quick_mode
    /\ _last_prompt_key' = s._last_prompt_key
    /\ _last_instruction' = s._last_instruction
    /\ Called("extract_selected_text") <=> Calls(s.calls, "extract_selected_text") # {}

\* C4: a quick activation handled when no action is remembered does what a
\* primary activation handled in the same state would do, in every reachable
\* state (also while an extraction is running).
C4_QuickWithoutPendingIsPrimary ==
    [][(Ran("_on_quick_hotkey_pressed") /\ _last_prompt_key = "") =>
          SameEffect(_on_hotkey_pressed(self))]_vars

\* A quick activation is handled with no request in flight, a remembered
\* action that resolves, and an extraction running.
QuickReuse ==
    /\ Ran("_on_quick_hotkey_pressed")
    /\ ~_ai_request_in_progress
    /\ _last_prompt_key # ""
    /\ get_prompt_info(_last_prompt_key)
    /\ _extraction_in_progress

\* C5: a quick activation with a remembered, resolvable action that is handled
\* while an extraction is running starts no second extraction and only sets
\* _quick_mode; once set during an extraction, _quick_mode stays set until an
\* extraction result is handled, and a result with text handled in quick mode
\* is dispatched without the popup.
C5_QuickReusesPendingExtraction ==
    /\ [][QuickReuse =>
             /\ ~Called("extract_selected_text")
             /\ _quick_mode'
             /\ UNCHANGED <<_ai_request_in_progress, _extraction_in_progress,
                            _last_prompt_key, _last_instruction,
                            worker, starting, aiThreads>>]_vars
    /\ [][(_quick_mode /\ _extraction_in_progress /\ ~_quick_mode') =>
             Ran("_on_text_extracted")]_vars
    /\ [][(Ran("_on_text_extracted") /\ _quick_mode /\ eventQueue # << >>
             /\ eventQueue' = Tail(eventQueue) /\ Head(eventQueue).arg # << >>) =>
             Dispatched /\ ~Called("show_at_position")]_vars

\* C6: at most one extraction is outstanding: no step starts an extraction
\* while _extraction_in_progress is set.
C6_SingleExtraction ==
    [][Called("extract_selected_text") => ~_extraction_in_progress]_vars

\* A quick activation is handled while the remembered key does not resolve.
QuickUnresolved ==
    /\ Ran("_on_quick_hotkey_pressed")
    /\ _last_prompt_key # ""
    /\ ~get_prompt_info(_last_prompt_key)

\* The quick repeat is given up: the user is told, the remembered key is
\* emptied, no extraction and no request thread is started.
QuickAborted ==
    /\ Called("show_message")
    /\ _last_prompt_key' = ""
    /\ ~Called("extract_selected_text")
    /\ ~Called("Thread.start")
    /\ UNCHANGED <<_ai_request_in_progress, _extraction_in_progress, _quick_mode,
                   worker, starting, aiThreads>>

\* C7 as stated: every quick activation whose remembered key no longer
\* resolves gives up the quick repeat.
C7_UnresolvedAlwaysAborts ==
    [][QuickUnresolved => QuickAborted]_vars

\* C7: a quick activation whose remembered key no longer resolves, handled
\* while no request is in flight, gives up the quick repeat: the user is told,
\* the remembered key is emptied, no extraction is started and no remote call
\* is made.
C7_UnresolvedAborts ==
    [][(QuickUnresolved /\ ~_ai_request_in_progress) => QuickAborted]_vars

\* C7, its case: the quick repeat has just been given up while an extraction
\* was running.
C7_Witness ==
    /\ out.slot = "_on_quick_hotkey_pressed"
    /\ Calls(out.calls, "show_message") # {}
    /\ _last_prompt_key = ""
    /\ _extraction_in_progress

\* C8: when a replace operation ends, with or without its paste, the
\* clipboard holds what it held when the operation began.
C8_ReplaceRestoresClipboard ==
    [][(worker.operation = "replace" /\ worker.pc # "finished"
          /\ worker'.pc = "finished") =>
          clipboard' = IF worker.pc = "run" THEN clipboard
                       ELSE worker.original_clipboard]_vars

\* The number of queued signals named sig.
Count(sig) == Cardinality({i \in DOMAIN eventQueue : eventQueue[i].sig = sig})

\* The step took the oldest queued signal, and it was one named sig.
Took(sig) ==
    /\ eventQueue # << >>
    /\ Head(eventQueue).sig = sig
    /\ eventQueue' = Tail(eventQueue)

\* The request threads that are there before and after the step.
Kept == IF Len(aiThreads') = Len(aiThreads) THEN DOMAIN aiThreads ELSE {}

\* Request thread i is at p before the step and elsewhere after it.
Leaves(i, p) == aiThreads[i].pc = p /\ aiThreads'[i].pc # p

\* C9: for each remote call that returns, replace is invoked exactly once, on
\* the main thread, after the return and with exactly the returned text: a
\* thread reaches the emit only from a returned call, it posts exactly one
\* _replace_text_signal carrying the returned text and goes on to finally;
\* nothing else posts that signal; and replace_text is called exactly when the
\* main thread takes that signal, with the text it carries.
C9_ReplaceOncePerSuccess ==
    /\ [][\A i \in Kept :
             /\ (aiThreads'[i].pc = "returned" /\ aiThreads[i].pc # "returned") =>
                   aiThreads[i].pc = "complete" /\ aiThreads'[i].result \in Responses
             /\ Leaves(i, "returned") =>
                   /\ aiThreads'[i].pc = "finally"
                   /\ eventQueue' = Append(eventQueue,
                          Signal("_replace_text_signal", aiThreads[i].result))]_vars
    /\ [][Count("_replace_text_signal")' > Count("_replace_text_signal") =>
             \E i \in Kept : Leaves(i, "returned")]_vars
    /\ [][Took("_replace_text_signal") =>
             /\ Ran("_do_replace_text")
             /\ out'.calls = {Call("replace_text", "", Head(eventQueue).arg, "")}]_vars
    /\ [][Called("replace_text") => Took("_replace_text_signal")]_vars

\* C9, its case: replace has just been invoked with a returned text that ends
\* in white space.
C9_Witness ==
    /\ out.slot = "_do_replace_text"
    /\ Call("replace_text", "", <<"H", " ">>, "") \in out.calls
    /\ worker.operation = "replace"

\* C10: for each remote call that fails, exactly one error notification
\* reaches the main thread, replace is not invoked, and the call is not made
\* again: a thread in its except clause posts exactly one error_occurred and
\* goes on to finally, never to the call or the emit of a response; nothing
\* else posts that signal; taking it shows one message box and nothing else;
\* a thread at the call has just prepared its messages, and a new thread is
\* only started by a dispatch accepted while no request is in flight.
C10_FailureNotifiesOnceNoRetry ==
    /\ [][\A i \in Kept :
             /\ Leaves(i, "except") =>
                   /\ aiThreads'[i].pc = "finally"
                   /\ eventQueue' = Append(eventQueue,
                          Signal("error_occurred", aiThreads[i].result))
             /\ Leaves(i, "complete") => aiThreads'[i].pc \in {"returned", "except"}
             /\ (aiThreads'[i].pc = "complete" /\ aiThreads[i].pc # "complete") =>
                   aiThreads[i].pc = "start"
             /\ aiThreads'[i].pc = "start" => aiThreads[i].pc = "start"]_vars
    /\ [][Count("error_occurred")' > Count("error_occurred") =>
             \E i \in Kept : Leaves(i, "except")]_vars
    /\ [][Took("error_occurred") =>
             /\ Ran("_show_error_dialog")
             /\ out'.calls = {Call("QMessageBox.critical", "", Head(eventQueue).arg, "")}
             /\ UNCHANGED <<aiThreads, worker, starting>>]_vars
    /\ [][Len(aiThreads') > Len(aiThreads) =>
             Dispatched /\ ~_ai_request_in_progress /\ Called("Thread.start")]_vars

\* C10, its case: the message box for a failed call has just been shown, the
\* thread has ended, and no replace was started.
C10_Witness ==
    /\ out.slot = "_show_error_dialog"
    /\ Call("QMessageBox.critical", "", <<"timeout">>, "") \in out.calls
    /\ aiThreads = << >>
    /\ ~_ai_request_in_progress
    /\ Count("_replace_text_signal") = 0
    /\ worker.operation # "replace"

\* The request thread is scheduled until it ends, and ai_provider.complete
\* returns or raises (its httpx client has a timeout of 60 s).
FairSpec ==
    /\ Spec
    /\ WF_vars(ThreadGetMessages)
    /\ WF_vars(ThreadCompleteReturns \/ ThreadCompleteRaises)
    /\ WF_vars(ThreadEmitReplace)
    /\ WF_vars(ThreadEmitError)
    /\ WF_vars(ThreadFinally)

----------------------------------------------------------------------------
(* The exchange service when a call fails or an operation is slow *)

\* A slot whose call of TextProcessor._start_operation raised (TextWorker(),
\* QThread() or QThread.start() failed): the fields the slot had written
\* stay written, no thread is started, and the exception leaves the slot.
PerformRaising(slot, s) ==
    /\ Calls(s.calls, "extract_selected_text") \cup Calls(s.calls, "replace_text") # {}
    /\ worker.pc = "finished"
    /\ _ai_request_in_progress' = s._ai_request_in_progress
    /\ _extraction_in_progress' = s._extraction_in_progress
    /\ _quick_mode' = s._quick_mode
    /\ _last_prompt_key' = s._last_prompt_key
    /\ _last_instruction' = s._last_instruction
    /\ out' = [slot |-> slot, calls |-> s.calls \cup {Call0("raise")}]
    /\ UNCHANGED <<prompts, popup, aiThreads, worker, orphan, starting, clipboard,
                   teardown, hotkey_manager, startup, client, lock>>

\* An activation is handled and starting the extraction raises.
ActivationStartRaises ==
    /\ MainThreadFree
    /\ Len(eventQueue) <= MaxQueue
    /\ \/ PerformRaising("_on_hotkey_pressed", _on_hotkey_pressed(self))
       \/ PerformRaising("_on_quick_hotkey_pressed", _on_quick_hotkey_pressed(self))
    /\ UNCHANGED eventQueue

\* _start_operation has waited for the previous thread, and then raises.
StartOperationRaises ==
    /\ starting # NoStart
    /\ worker.pc = "finished"
    /\ starting' = NoStart
    /\ out' = Quiet
    /\ UNCHANGED <<_ai_request_in_progress, _extraction_in_progress, _quick_mode,
                   _last_prompt_key, _last_instruction, prompts, popup, eventQueue,
                   aiThreads, worker, orphan, clipboard, teardown, hotkey_manager, startup, client, lock>>

\* TextProcessor._cleanup_previous: QThread.wait(1000) returns although the
\* previous thread is still running (its result is not looked at); the
\* references to it are dropped and the new operation starts beside it.
CleanupTimeout ==
    /\ starting # NoStart
    /\ worker.pc # "finished"
    /\ orphan.pc = "finished"
    /\ orphan' = worker
    /\ worker' = NewWorker(starting.operation, starting.replacement_text)
    /\ starting' = NoStart
    /\ out' = Quiet
    /\ UNCHANGED <<_ai_request_in_progress, _extraction_in_progress, _quick_mode,
                   _last_prompt_key, _last_instruction, prompts, popup, eventQueue,
                   aiThreads, clipboard, teardown, hotkey_manager, startup, client, lock>>

\* The steps of the program while the user only presses the hotkeys and
\* closes the popup, with these failures.
FaultNext ==
    \/ HandleHotkey
    \/ HandleQuickHotkey
    \/ HandleTextExtracted
    \/ PopupClose
    \/ CleanupDone
    \/ ExtractCopy
    \/ ExtractRead
    \/ ExtractEmit
    \/ ExtractRaises
    \/ ActivationStartRaises
    \/ StartOperationRaises
    \/ CleanupTimeout

\* Every exchange thread that can run does run, and the main thread's event
\* loop delivers what is queued for it and leaves _start_operation.
FaultSpec ==
    /\ Init
    /\ [][FaultNext]_vars
    /\ WF_vars(ExtractCopy \/ ExtractRead \/ ExtractEmit \/ ExtractRaises)
    /\ SF_vars(HandleTextExtracted)
    /\ WF_vars(CleanupDone \/ StartOperationRaises \/ CleanupTimeout)

\* C12: once an activation has set _extraction_in_progress it is eventually
\* cleared, also when starting the extraction raises or the extraction fails.
C12_ExtractionFlagCleared ==
    _extraction_in_progress ~> ~_extraction_in_progress

\* The exchange threads that are running.
Alive == {who \in Workers : TextWorker(who).pc # "finished"}

\* C13: at most one exchange operation is alive at any time.
C13_OneExchangeOperation == Cardinality(Alive) <= 1

----------------------------------------------------------------------------
(* Registering the chords: HotkeyManager.start, stop and set_hotkeys, as    *)
(* functions of the manager's fields.                                       *)

\* What creating and starting the listener may do: succeed,
\* keyboard.GlobalHotKeys(...) raises, or listener.start() raises.
Registrations == {"registered", "GlobalHotKeys raises", "start raises"}

\* The fields of the manager, and whether the call raised.
manager ==
    [hotkey |-> hotkey, quick_hotkey |-> quick_hotkey, listener |-> listener,
     registered |-> registered, raised |-> FALSE]

\* seq without its first element equal to e.
RemoveFirst(seq, e) ==
    IF \E i \in DOMAIN seq : seq[i] = e
    THEN Remove(seq, CHOOSE i \in DOMAIN seq :
                        seq[i] = e /\ \A j \in 1..(i - 1) : seq[j] # e)
    ELSE seq

\* if hotkey: self.hotkey = hotkey; if quick_hotkey is not None: ...
Store(m, hotkey_arg, quick_arg) ==
    [m EXCEPT !.hotkey = IF hotkey_arg \in {None, ""} THEN @ ELSE hotkey_arg,
              !.quick_hotkey = IF quick_arg = None THEN @ ELSE quick_arg]

\* HotkeyManager.stop
stop(m) ==
    IF m.listener # NoListener
    THEN [m EXCEPT !.registered = IF m.listener.running
                                  THEN RemoveFirst(@, m.listener.hotkeys) ELSE @,
                   !.listener = NoListener]
    ELSE m

\* A variant of start that does not stop the listener that is running.
start_keeps(m, hotkey_arg, quick_arg, registration_) ==
    LET m1 == Store(m, hotkey_arg, quick_arg)
        dict == hotkeys_dict(m1.hotkey, m1.quick_hotkey)
    IN  IF registration_ = "GlobalHotKeys raises" THEN [m1 EXCEPT !.raised = TRUE]
        ELSE IF registration_ = "start raises"
        THEN [m1 EXCEPT !.listener = [hotkeys |-> dict, running |-> FALSE],
                        !.raised = TRUE]
        ELSE [m1 EXCEPT !.listener = [hotkeys |-> dict, running |-> TRUE],
                        !.registered = Append(@, dict)]

\* A variant of start whose except clause only logs.
start_swallows(m, hotkey_arg, quick_arg, registration_) ==
    LET m1 == Store(m, hotkey_arg, quick_arg)
        m2 == IF m1.listener # NoListener /\ m1.listener.running THEN stop(m1) ELSE m1
        dict == hotkeys_dict(m2.hotkey, m2.quick_hotkey)
    IN  IF registration_ = "GlobalHotKeys raises" THEN m2
        ELSE IF registration_ = "start raises"
        THEN [m2 EXCEPT !.listener = [hotkeys |-> dict, running |-> FALSE]]
        ELSE [m2 EXCEPT !.listener = [hotkeys |-> dict, running |-> TRUE],
                        !.registered = Append(@, dict)]

\* HotkeyManager.start
start(m, hotkey_arg, quick_arg, registration_) ==
    LET m1 == Store(m, hotkey_arg, quick_arg)
        m2 == IF m1.listener # NoListener /\ m1.listener.running THEN stop(m1) ELSE m1
        dict == hotkeys_dict(m2.hotkey, m2.quick_hotkey)
    IN  IF registration_ = "GlobalHotKeys raises" THEN [m2 EXCEPT !.raised = TRUE]
        ELSE IF registration_ = "start raises"
        THEN [m2 EXCEPT !.listener = [hotkeys |-> dict, running |-> FALSE],
                        !.raised = TRUE]
        ELSE [m2 EXCEPT !.listener = [hotkeys |-> dict, running |-> TRUE],
                        !.registered = Append(@, dict)]

\* HotkeyManager.set_hotkeys
set_hotkeys(m, hotkey_arg, quick_arg, registration_) ==
    LET m1 == Store(m, hotkey_arg, quick_arg)
    IN  IF is_active THEN start(m1, None, None, registration_) ELSE m1

\* The manager's fields become those of m.
Registers(m) ==
    /\ hotkey' = m.hotkey
    /\ quick_hotkey' = m.quick_hotkey
    /\ listener' = m.listener
    /\ registered' = m.registered

----------------------------------------------------------------------------
(* Shutdown: QuillApp._on_quit_requested *)

\* OAICompatibleProvider.configure: the client held is closed and a new
\* httpx.Client takes its place.
configure(c) == [id |-> c.id + 1, is_closed |-> FALSE]

\* OAICompatibleProvider.close: the client held, if any, is closed.
close(c) == IF c # NoClient THEN [c EXCEPT !.is_closed = TRUE] ELSE c

RECURSIVE IndexOf(_, _)
\* The place of the last occurrence of c in the sequence seq, 0 when absent.
IndexOf(seq, c) ==
    IF seq = << >> THEN 0
    ELSE IF seq[Len(seq)] = c THEN Len(seq)
    ELSE IndexOf(SubSeq(seq, 1, Len(seq) - 1), c)

\* The user chose Quit in the tray menu and answered Yes: steps 1 to 4 of the
\* handler (the settings and onboarding windows are not part of this model).
_on_quit_requested ==
    /\ MainThreadFree
    /\ teardown' = <<"hotkey_manager.stop", "ai_provider.close",
                     "tray_manager.hide", "popup_window.close">>
    /\ popup' = [popup EXCEPT !.visible = FALSE]
    /\ Registers(stop(manager))
    /\ client' = close(client)
    /\ out' = [slot |-> "_on_quit_requested", calls |-> {}]
    /\ UNCHANGED <<_ai_request_in_progress, _extraction_in_progress, _quick_mode,
                   _last_prompt_key, _last_instruction, prompts, eventQueue,
                   aiThreads, worker, orphan, starting, clipboard,
                   is_active, _quick_hotkey_timestamp, now, emitted, startup, lock>>

\* Step 7 of the handler, TextProcessor.cleanup, then self.quit():
\* _cleanup_previous waits for a running exchange thread, for one second at
\* most, and drops its references to it.
cleanup ==
    /\ teardown # << >>
    /\ IndexOf(teardown, "text_processor.cleanup") = 0
    /\ teardown' = teardown \o <<"text_processor.cleanup", "quit">>
    /\ \/ worker.pc = "finished" /\ UNCHANGED <<worker, orphan>>
       \/ /\ worker.pc # "finished" /\ orphan.pc = "finished"
          /\ orphan' = worker
          /\ worker' = NoWorker
    /\ out' = [slot |-> "_on_quit_requested", calls |-> {}]
    /\ UNCHANGED <<_ai_request_in_progress, _extraction_in_progress, _quick_mode,
                   _last_prompt_key, _last_instruction, prompts, popup, eventQueue,
                   aiThreads, starting, clipboard, hotkey_manager, startup, client, lock>>

QuitNext ==
    \/ Next
    \/ _on_quit_requested
    \/ cleanup

QuitSpec == Init /\ [][QuitNext]_vars

\* The call c has been made during shutdown.
Done(c) == IndexOf(teardown, c) > 0

\* C14: on shutdown the hotkey source is stopped first, then the active
\* exchange operation is awaited, and only then is the remote client's
\* connection released.
C14_ShutdownOrder ==
    /\ teardown # << >> => teardown[1] = "hotkey_manager.stop"
    /\ Done("ai_provider.close") =>
          /\ Done("text_processor.cleanup")
          /\ IndexOf(teardown, "text_processor.cleanup")
                < IndexOf(teardown, "ai_provider.close")

----------------------------------------------------------------------------
(* The hotkey source: HotkeyManager, whose callbacks run on the listener    *)
(* thread. Times are in milliseconds.                                       *)

_suppress_duration == 200

Delays == {199, 200, 201}
MaxTime == 1605

\* The application outside the hotkey manager, once started.
application ==
    <<_ai_request_in_progress, _extraction_in_progress, _quick_mode,
      _last_prompt_key, _last_instruction, prompts, popup, eventQueue,
      aiThreads, worker, orphan, starting, clipboard, teardown, out>>

Outcome(callback, did) == [callback |-> callback, did |-> did]

\* A variant that also suppresses at exactly the window's length.
Suppressed_inclusive == now - _quick_hotkey_timestamp <= _suppress_duration

\* time.time() - self._quick_hotkey_timestamp < self._suppress_duration
Suppressed == now - _quick_hotkey_timestamp < _suppress_duration

\* A variant of the try block without its except clause: the exception
\* leaves the callback and ends the listener that called it.
TryEmit_propagates(callback) ==
    \/ emitted' = Outcome(callback, "emit") /\ UNCHANGED registration
    \/ /\ emitted' = Outcome(callback, "raised")
       /\ registered' = RemoveFirst(registered, listener.hotkeys)
       /\ listener' = [listener EXCEPT !.running = FALSE]
       /\ UNCHANGED <<hotkey, quick_hotkey>>

\* The try block of a callback: the cursor position is read and the signal
\* emitted, or an exception is caught and logged; the callback returns to
\* the listener either way.
TryEmit(callback) ==
    /\ \E did \in {"emit", "raised"} : emitted' = Outcome(callback, did)
    /\ UNCHANGED registration

\* A listener running at the OS has a chord bound to callback: pressing the
\* chord calls it.
Bound(callback) ==
    \E i \in DOMAIN registered : \E chord \in PrimaryChords \cup QuickChords :
        <<chord, callback>> \in registered[i]

\* Arguments of start and set_hotkeys.
PrimaryArgs == PrimaryChords \cup {None}
QuickArgs == QuickChords \cup {None}

\* Listeners that a sequence of calls may leave running at the OS.
MaxListeners == 2

\* The call fn(hotkey_arg, quick_arg) of the manager was made, and did is
\* how it ended.
Called_(did, fn, hotkey_arg, quick_arg) ==
    [callback |-> fn, did |-> did, hotkey |-> hotkey_arg, quick_hotkey |-> quick_arg]

\* _start_app or a caller of the manager calls start(hotkey, quick_hotkey).
CallStart ==
    \E hotkey_arg \in PrimaryArgs, quick_arg \in QuickArgs, r \in Registrations :
        LET m == start(manager, hotkey_arg, quick_arg, r)
        IN  /\ Len(m.registered) <= MaxListeners
            /\ Registers(m)
            /\ emitted' = Called_(IF m.raised THEN "raised" ELSE "returned",
                                   "start", hotkey_arg, quick_arg)
            /\ UNCHANGED <<is_active, _quick_hotkey_timestamp, now, application, startup, client, lock>>

\* stop() is called.
CallStop ==
    /\ Registers(stop(manager))
    /\ emitted' = Outcome("stop", "returned")
    /\ UNCHANGED <<is_active, _quick_hotkey_timestamp, now, application, startup, client, lock>>

\* _on_settings_saved calls set_hotkeys(hotkey, quick_hotkey) with the
\* configured chords.
CallSetHotkeys ==
    \E hotkey_arg \in PrimaryChords, quick_arg \in QuickChords, r \in Registrations :
        LET m == set_hotkeys(manager, hotkey_arg, quick_arg, r)
        IN  /\ Len(m.registered) <= MaxListeners
            /\ Registers(m)
            /\ emitted' = Called_(IF m.raised THEN "raised" ELSE "returned",
                                   "set_hotkeys", hotkey_arg, quick_arg)
            /\ UNCHANGED <<is_active, _quick_hotkey_timestamp, now, application, startup, client, lock>>

_on_hotkey_activated ==
    /\ Bound("_on_hotkey_activated")
    /\ IF ~is_active
       THEN /\ emitted' = Outcome("_on_hotkey_activated", "paused")
            /\ UNCHANGED registration
       ELSE IF Suppressed
       THEN /\ emitted' = Outcome("_on_hotkey_activated", "suppressed")
            /\ UNCHANGED registration
       ELSE TryEmit("_on_hotkey_activated")
    /\ UNCHANGED <<is_active, _quick_hotkey_timestamp, now, application, startup, client, lock>>

\* A variant of the quick callback without the test of is_active.
_on_quick_hotkey_activated_always ==
    /\ Bound("_on_quick_hotkey_activated")
    /\ _quick_hotkey_timestamp' = now
    /\ TryEmit("_on_quick_hotkey_activated")
    /\ UNCHANGED <<is_active, now, application, startup, client, lock>>

\* A variant of the quick callback that records the time only when active.
_on_quick_hotkey_activated_skips ==
    /\ Bound("_on_quick_hotkey_activated")
    /\ IF ~is_active
       THEN /\ emitted' = Outcome("_on_quick_hotkey_activated", "paused")
            /\ UNCHANGED <<registration, _quick_hotkey_timestamp>>
       ELSE /\ _quick_hotkey_timestamp' = now
            /\ TryEmit("_on_quick_hotkey_activated")
    /\ UNCHANGED <<is_active, now, application, startup, client, lock>>

_on_quick_hotkey_activated ==
    /\ Bound("_on_quick_hotkey_activated")
    /\ _quick_hotkey_timestamp' = now
    /\ IF ~is_active
       THEN /\ emitted' = Outcome("_on_quick_hotkey_activated", "paused")
            /\ UNCHANGED registration
       ELSE TryEmit("_on_quick_hotkey_activated")
    /\ UNCHANGED <<is_active, now, application, startup, client, lock>>

\* A variant of pause that also stops the listener.
pause_stops ==
    /\ is_active' = FALSE
    /\ emitted' = Outcome("pause", "returned")
    /\ Registers(stop(manager))
    /\ UNCHANGED <<_quick_hotkey_timestamp, now, application, startup, client, lock>>

pause ==
    /\ is_active' = FALSE
    /\ emitted' = Outcome("pause", "returned")
    /\ UNCHANGED <<_quick_hotkey_timestamp, now, registration, application, startup, client, lock>>

resume ==
    /\ is_active' = TRUE
    /\ emitted' = Outcome("resume", "returned")
    /\ UNCHANGED <<_quick_hotkey_timestamp, now, registration, application, startup, client, lock>>

\* Time passes between two calls.
Tick ==
    \E d \in Delays :
        /\ now + d <= MaxTime
        /\ now' = now + d
        /\ emitted' = NoCallback
        /\ UNCHANGED <<is_active, _quick_hotkey_timestamp, registration, application, startup, client, lock>>

HotkeyNext ==
    \/ _on_hotkey_activated
    \/ _on_quick_hotkey_activated
    \/ pause
    \/ resume
    \/ Tick
    \/ CallStart
    \/ CallStop
    \/ CallSetHotkeys

HotkeySpec == Init /\ [][HotkeyNext]_vars

\* The step is a call of the primary callback.
PrimaryActivation == emitted'.callback = "_on_hotkey_activated"

\* C15: a primary activation less than 200 ms after the last quick
\* activation is dropped without emitting an event; at 200 ms or more after
\* it, or with no earlier quick activation, and with the source active, it is
\* not suppressed and goes on to emit: the event is emitted unless reading
\* the cursor raises.
C15_SuppressionWindow ==
    [][PrimaryActivation =>
         LET elapsed == now - _quick_hotkey_timestamp
         IN  /\ elapsed < 200 =>
                  /\ emitted'.did \in {"suppressed", "paused"}
                  /\ is_active => emitted'.did = "suppressed"
             /\ (elapsed >= 200 /\ is_active) => emitted'.did \in {"emit", "raised"}
             /\ (_quick_hotkey_timestamp = 0 /\ is_active) =>
                  emitted'.did \in {"emit", "raised"}]_vars

\* A primary activation exactly 200 ms after a quick activation has emitted.
C15_Witness ==
    /\ emitted = Outcome("_on_hotkey_activated", "emit")
    /\ _quick_hotkey_timestamp > 0
    /\ now - _quick_hotkey_timestamp = 200

\* A primary activation 199 ms after a quick activation has been dropped.
C15_WitnessDropped ==
    /\ emitted = Outcome("_on_hotkey_activated", "suppressed")
    /\ now - _quick_hotkey_timestamp = 199

----------------------------------------------------------------------------
(* The extract operation *)

\* The thread who after the step.
Then(who) == IF who = "worker" THEN worker' ELSE orphan'

\* The step takes the extract operation of who from the place pc to the place to.
ExtractStep(who, pc, to) ==
    /\ TextWorker(who).operation = "extract"
    /\ TextWorker(who).pc = pc
    /\ Then(who).pc = to

\* The step posts exactly the signal sig.
Posts(sig) == eventQueue' = Append(eventQueue, sig)

\* C16: an extraction whose clipboard content read after the copy equals the
\* snapshot yields the empty string as its result, never an error; otherwise
\* it yields the content read.
C16_UnchangedClipboardIsEmpty ==
    [][\A who \in Workers :
         /\ ExtractStep(who, "sleep", "restored") =>
               /\ Then(who).selected_text = clipboard
               /\ Then(who).original_clipboard = TextWorker(who).original_clipboard
         /\ ExtractStep(who, "restored", "finished") =>
               IF TextWorker(who).selected_text = TextWorker(who).original_clipboard
               THEN Posts(Signal("text_extracted", << >>))
               ELSE Posts(Signal("text_extracted", TextWorker(who).selected_text))]_vars

\* An extraction has read a non-empty content equal to its snapshot.
C16_Witness ==
    \E who \in Workers :
        /\ TextWorker(who).operation = "extract"
        /\ TextWorker(who).pc = "restored"
        /\ TextWorker(who).selected_text # << >>
        /\ TextWorker(who).selected_text = TextWorker(who).original_clipboard

\* C17: when an extract operation finishes the clipboard holds what it held
\* before the operation began, and the snapshot is restored before the
\* extracted text is reported.
C17_ExtractRestoresClipboard ==
    [][\A who \in Workers :
         (/\ TextWorker(who).operation = "extract"
          /\ TextWorker(who).pc # "finished"
          /\ Then(who).pc = "finished") =>
             /\ clipboard = IF TextWorker(who).pc = "run" THEN clipboard
                            ELSE TextWorker(who).original_clipboard
             /\ clipboard' = clipboard]_vars

\* The number of signals named sig queued after the step.
CountThen(sig) == Cardinality({i \in DOMAIN eventQueue' : eventQueue'[i].sig = sig})

\* The step ends the extract operation of who.
ExtractEnds(who) ==
    /\ TextWorker(who).operation = "extract"
    /\ TextWorker(who).pc # "finished"
    /\ Then(who).pc = "finished"

\* C18: every extract operation delivers exactly one result to the
\* dispatcher on every path: the step that ends it, and no other step, posts
\* one text_extracted signal, which the dispatcher's slot receives; a failure
\* at any step yields the empty result and never an error notification.
C18_OneResultPerExtract ==
    [][/\ \A who \in Workers :
            /\ ExtractEnds(who) =>
                  /\ \E text \in Selections \cup {InitialClipboard} :
                        Posts(Signal("text_extracted", text))
                  /\ TextWorker(who).pc \in {"run", "sleep"} =>
                        Posts(Signal("text_extracted", << >>))
            /\ (/\ TextWorker(who).operation = "extract"
                /\ Then(who) # TextWorker(who)
                /\ ~ExtractEnds(who)) => eventQueue' = eventQueue
       /\ CountThen("text_extracted") > Count("text_extracted") =>
             \E who \in Workers : ExtractEnds(who)
       /\ Took("text_extracted") => Ran("_on_text_extracted")]_vars

\* An extraction that failed after the copy has reported the empty result.
C18_Witness ==
    /\ worker.pc = "finished"
    /\ clipboard = <<"h">>
    /\ eventQueue # << >>
    /\ eventQueue[Len(eventQueue)] = Signal("text_extracted", << >>)

----------------------------------------------------------------------------
(* Quick mode and the remembered action *)

\* The step hands the text of a quick activation's extraction to
\* _on_text_extracted.
QuickResult ==
    /\ Ran("_on_text_extracted")
    /\ _quick_mode
    /\ eventQueue # << >>
    /\ Head(eventQueue).arg # << >>

\* C19: in quick mode the extraction result is dispatched at once, in the
\* step that receives it, with the remembered prompt key and instruction and
\* the newly extracted text, and the popup is not shown for it.  (A dispatch
\* is accepted when no request is in flight and ignored otherwise.)
C19_QuickDispatchesWithoutPopup ==
    [][QuickResult =>
         LET dispatch == Call("Thread.start", _last_prompt_key,
                              Head(eventQueue).arg, _last_instruction)
         IN  /\ ~Called("show_at_position")
             /\ popup' = popup
             /\ Dispatched
             /\ IF _ai_request_in_progress
                THEN /\ Log("AI request already in progress, ignoring") \in out'.calls
                     /\ ~Called("Thread.start")
                     /\ aiThreads' = aiThreads
                ELSE /\ Calls(out'.calls, "Thread.start") = {dispatch}
                     /\ aiThreads' = Append(aiThreads, NewThread(dispatch))]_vars

\* A quick activation's text has been dispatched and a request started.
C19_Witness ==
    /\ out.slot = "_on_text_extracted"
    /\ Log("Quick mode: executing") \in out.calls
    /\ Calls(out.calls, "Thread.start") # {}
    /\ ~popup.visible

\* The remembered action: the prompt key and instruction of the last accepted
\* dispatch; none is remembered while the key is empty (application.py:260).
PendingAction == <<_last_prompt_key, _last_instruction>>

\* The step accepted a dispatch: _on_action_requested started a request thread.
Accepted == Called("Thread.start")

\* C20: the remembered action changes in only two cases: an accepted dispatch
\* sets it to that dispatch's prompt key and instruction, and a quick
\* activation whose remembered key no longer resolves clears it (the key is
\* emptied); every other event leaves the key and the instruction unchanged.
C20_PendingActionWrites ==
    [][/\ Accepted =>
             \E c \in Calls(out'.calls, "Thread.start") :
                 /\ Dispatched
                 /\ PendingAction' = <<c.key, c.instruction>>
       /\ (QuickUnresolved /\ ~_ai_request_in_progress) =>
             /\ _last_prompt_key' = ""
             /\ _last_instruction' = _last_instruction
       /\ ~(Accepted \/ (QuickUnresolved /\ ~_ai_request_in_progress)) =>
             PendingAction' = PendingAction]_vars

\* An accepted dispatch has replaced a different remembered action.
C20_Witness ==
    /\ out.slot = "_emit_action"
    /\ \E c \in Calls(out.calls, "Thread.start") :
          /\ c.instruction = "shorter"
          /\ PendingAction = <<c.key, c.instruction>>
    /\ Len(aiThreads) = 1

\* A quick activation has emptied a remembered key that no longer resolves.
C20_WitnessCleared ==
    /\ out.slot = "_on_quick_hotkey_pressed"
    /\ Calls(out.calls, "show_message") # {}
    /\ PendingAction = <<"", "shorter">>

\* The step hands an empty extraction result to _on_text_extracted.
EmptyResult ==
    /\ Ran("_on_text_extracted")
    /\ eventQueue # << >>
    /\ Head(eventQueue).arg = << >>

\* C21: when an extraction yields the empty result the cycle ends there: the
\* popup is not shown, no dispatch is made and no request or exchange
\* operation is started, _extraction_in_progress and _quick_mode are both
\* false afterwards, and the remembered action is unchanged.
C21_EmptyResultEndsCycle ==
    [][EmptyResult =>
         /\ ~Called("show_at_position")
         /\ popup' = popup
         /\ ~Dispatched
         /\ ~Called("Thread.start")
         /\ aiThreads' = aiThreads
         /\ _ai_request_in_progress' = _ai_request_in_progress
         /\ UNCHANGED <<worker, starting>>
         /\ ~_extraction_in_progress'
         /\ ~_quick_mode'
         /\ PendingAction' = PendingAction]_vars

\* An empty result has been received while an action was remembered.
C21_Witness ==
    /\ out.slot = "_on_text_extracted"
    /\ Log("No text selected, ignoring hotkey") \in out.calls
    /\ _last_prompt_key # ""
    /\ ~_ai_request_in_progress

----------------------------------------------------------------------------
(* Registration of the chords *)

\* The chord table a listener for the stored chords carries.
Current == hotkeys_dict(hotkey, quick_hotkey)

\* The step is a call of fn that ended as did.
Returned(fn, did) == emitted'.callback = fn /\ emitted'.did = did

\* C22: start() is idempotent: after any sequence of start() and stop()
\* calls, a start() that returns leaves exactly one listener registered, the
\* one the manager holds, carrying the chords of that call (an argument of
\* None, or an empty primary chord, keeps the stored chord); the listener
\* that was running before is no longer registered.
C22_StartIdempotent ==
    [][Returned("start", "returned") =>
         /\ hotkey' = IF emitted'.hotkey \in {None, ""} THEN hotkey ELSE emitted'.hotkey
         /\ quick_hotkey' = IF emitted'.quick_hotkey = None THEN quick_hotkey
                            ELSE emitted'.quick_hotkey
         /\ listener' = [hotkeys |-> hotkeys_dict(hotkey', quick_hotkey'),
                         running |-> TRUE]
         /\ registered' = <<listener'.hotkeys>>]_vars

\* start() has returned after replacing a running listener for other chords.
C22_Witness ==
    /\ emitted.callback = "start"
    /\ emitted.did = "returned"
    /\ emitted.hotkey = "<alt>+q"
    /\ emitted.quick_hotkey = ""
    /\ registered = <<{<<"<alt>+q", "_on_hotkey_activated">>}>>

\* C23: reconfiguration replaces the binding wholesale: after
\* set_hotkeys(primary, quick) has finished, returning or raising, with the
\* source active or paused, the stored chords and the chords registered with
\* the OS listener are both the new pair or both the old pair.
C23_WholesaleReconfiguration ==
    [][(emitted'.callback = "set_hotkeys" /\ registered = <<Current>>) =>
         \/ /\ <<hotkey', quick_hotkey'>> = <<emitted'.hotkey, emitted'.quick_hotkey>>
            /\ registered' = <<hotkeys_dict(emitted'.hotkey, emitted'.quick_hotkey)>>
         \/ /\ <<hotkey', quick_hotkey'>> = <<hotkey, quick_hotkey>>
            /\ registered' = registered]_vars

\* After the step the manager holds a running listener for the stored chords.
RegisteredThen ==
    /\ listener'.running
    /\ listener'.hotkeys = hotkeys_dict(hotkey', quick_hotkey')
    /\ registered' = <<listener'.hotkeys>>

\* C24: if the chords cannot be registered with the OS, start() raises to its
\* caller, on a first start (no listener held) and when reached through
\* set_hotkeys: a call of start, or of set_hotkeys with the source active,
\* that returns has registered the chords, and one that raises has not.
C24_RegistrationFailureRaises ==
    [][/\ emitted'.callback = "start" =>
             (emitted'.did = "raised" <=> ~RegisteredThen)
       /\ (emitted'.callback = "set_hotkeys" /\ is_active) =>
             (emitted'.did = "raised" <=> ~RegisteredThen)
       /\ (emitted'.callback = "set_hotkeys" /\ ~is_active) =>
             emitted'.did = "returned"]_vars

\* set_hotkeys has raised because the new chords could not be registered.
C24_Witness ==
    /\ emitted.callback = "set_hotkeys"
    /\ emitted.did = "raised"
    /\ listener = NoListener
    /\ registered = << >>

\* A first start has raised.
C24_WitnessFirstStart ==
    /\ emitted.callback = "start"
    /\ emitted.did = "raised"
    /\ listener = NoListener

\* The callbacks the listener calls.
Callbacks == {"_on_hotkey_activated", "_on_quick_hotkey_activated"}

\* C26: an error raised inside a hotkey callback is caught inside the
\* callback: it does not reach the OS listener, which stays registered and
\* running with the same chords, so that the chord still calls the callback.
C26_CallbackErrorsCaught ==
    [][(emitted'.callback \in Callbacks /\ emitted'.did = "raised") =>
         /\ UNCHANGED registration
         /\ listener'.running
         /\ Bound(emitted.callback)']_vars

\* The primary callback has caught an error with its listener still running.
C26_Witness ==
    /\ emitted = Outcome("_on_hotkey_activated", "raised")
    /\ listener.running
    /\ Bound("_on_hotkey_activated")


\* C27: pause() and resume() change only the active flag: the listener, the
\* registered chords and both chord strings are unchanged, and an activation
\* right after resume() is handled as by an active source, through the
\* listener that was registered before the pause.
C27_PauseResumeFrame ==
    [][/\ emitted'.callback \in {"pause", "resume"} =>
             /\ is_active' = (emitted'.callback = "resume")
             /\ UNCHANGED <<registration, _quick_hotkey_timestamp, now>>
       /\ (emitted.callback = "resume" /\ emitted'.callback \in Callbacks) =>
             /\ emitted'.did # "paused"
             /\ UNCHANGED registration
             /\ Bound(emitted'.callback)]_vars

\* resume() has returned, with the listener registered for chords that an
\* earlier reconfiguration had set.
C27_Witness ==
    /\ emitted = Outcome("resume", "returned")
    /\ is_active
    /\ listener.running
    /\ hotkey = "<alt>+q"
    /\ registered = <<Current>>


\* C28: an activation event, primary or quick, is emitted only if is_active
\* is set when the callback is called; while the source is paused a callback
\* emits nothing.
C28_EmitOnlyWhenActive ==
    [][emitted'.callback \in Callbacks =>
         /\ emitted'.did = "emit" => is_active
         /\ ~is_active => emitted'.did = "paused"
         /\ is_active' = is_active]_vars

\* The quick chord was pressed while the source was paused: nothing emitted.
C28_Witness ==
    /\ ~is_active
    /\ emitted = Outcome("_on_quick_hotkey_activated", "paused")
    /\ listener.running


----------------------------------------------------------------------------
(* Startup: main(), QuillApp.__init__ and QuillApp._start_app *)

\* The call c has been made during startup.
Started(c) == IndexOf(startup, c) > 0

\* QuillApp._start_app, called when the calls sofar have been made: the
\* remote client is configured, the chords of the configuration are
\* registered, then the tray icon and the popup window are created; on an
\* exception a message box is shown and
\* quit() is called.  QApplication.quit() ends the event loop when that is
\* running (exec has been called) and does nothing otherwise.
_start_app(sofar) ==
    \E r \in Registrations :
        LET m == start(manager, "<ctrl>+<space>", "<ctrl>+<alt>+<space>", r)
        IN  /\ client' = configure(client)
            /\ Registers(m)
            /\ startup' = sofar \o <<"_start_app">> \o
                  (IF ~m.raised THEN <<"create_tray_icon", "_create_popup_window">>
                   ELSE IF IndexOf(sofar, "exec") > 0
                   THEN <<"QMessageBox.critical", "quit", "exit">>
                   ELSE <<"QMessageBox.critical", "quit">>)
            /\ emitted' = Called_(IF m.raised THEN "raised" ELSE "returned",
                                   "start", "<ctrl>+<space>", "<ctrl>+<alt>+<space>")

\* QuillApp.__init__ (called by main before app.exec()): with a stored
\* configuration it calls _start_app, on a first run it shows the onboarding
\* window.
__init__ ==
    /\ startup = << >>
    /\ \/ _start_app(<<"__init__">>)
       \/ /\ startup' = <<"__init__", "_show_onboarding">>
          /\ UNCHANGED <<registration, emitted, client>>
    /\ UNCHANGED <<is_active, _quick_hotkey_timestamp, now, application, lock>>

\* main: exit_code = app.exec(), once the constructor has returned.
exec ==
    /\ Started("__init__")
    /\ ~Started("exec")
    /\ startup' = Append(startup, "exec")
    /\ UNCHANGED <<hotkey_manager, application, client, lock>>

\* The onboarding window's setup_completed -> _on_onboarding_completed,
\* which saves the configuration and calls _start_app.
_on_onboarding_completed ==
    /\ Started("_show_onboarding")
    /\ Started("exec")
    /\ ~Started("_start_app")
    /\ _start_app(startup)
    /\ UNCHANGED <<is_active, _quick_hotkey_timestamp, now, application, lock>>

\* The application has started and its event loop is running.
Running ==
    /\ Started("_create_popup_window")
    /\ Started("exec")
    /\ ~Started("exit")

StartupInit ==
    /\ _ai_request_in_progress = FALSE
    /\ _extraction_in_progress = FALSE
    /\ _quick_mode = FALSE
    /\ _last_prompt_key = ""
    /\ _last_instruction = ""
    /\ prompts \in PromptFiles
    /\ popup = [visible |-> FALSE, selected_text |-> << >>]
    /\ eventQueue = << >>
    /\ aiThreads = << >>
    /\ worker = NoWorker
    /\ orphan = NoWorker
    /\ starting = NoStart
    /\ clipboard = InitialClipboard
    /\ teardown = << >>
    /\ is_active = TRUE
    /\ _quick_hotkey_timestamp = 0
    /\ now \in StartTimes
    /\ emitted = NoCallback
    /\ hotkey = "<ctrl>+<space>"
    /\ quick_hotkey = ""
    /\ listener = NoListener
    /\ registered = << >>
    /\ startup = << >>
    /\ client = NoClient
    /\ lock = FirstInstance
    /\ out = Quiet

StartupNext ==
    \/ __init__
    \/ exec
    \/ _on_onboarding_completed
    \/ Running /\ HotkeyNext

StartupSpec == StartupInit /\ [][StartupNext]_vars

----------------------------------------------------------------------------
(* The remote client's failures: OAICompatibleProvider.complete and the     *)
(* except clause of QuillApp._process_ai_request.  A message is a sequence  *)
(* of text parts.                                                           *)

\* What the server answers with an error status: a JSON body whose "error"
\* has a message, or a body that is no JSON.
Bodies ==
    {[error_message |-> "Incorrect API key provided", text |-> "{...}"],
     [error_message |-> "", text |-> "Bad gateway"]}

\* A failure inside the try block of complete(): its kind, the exception that
\* is raised there, and that exception's message (for an error status, the
\* status code and the response body).
Failure(kind, exception, status_code, body, message) ==
    [kind |-> kind, exception |-> exception, status_code |-> status_code,
     body |-> body, message |-> message]

NoBody == [error_message |-> "", text |-> ""]

HttpFailures ==
    {Failure("authentication", "HTTPStatusError", code, body, "")
        : code \in {"401", "403"}, body \in Bodies}
    \cup {Failure("server", "HTTPStatusError", "500", body, "") : body \in Bodies}
    \cup {Failure("timeout", exception, "", NoBody, "timed out")
            : exception \in {"ConnectTimeout", "ReadTimeout"}}
    \cup {Failure("transport", "ConnectError", "", NoBody, message)
            : message \in {"[Errno 111] Connection refused", "Name or service not known"}}
    \cup {Failure("malformed", "RuntimeError", "", NoBody, "Invalid API response: no choices"),
          Failure("malformed", "JSONDecodeError", "", NoBody, "Expecting value"),
          Failure("malformed", "KeyError", "", NoBody, "'message'")}

\* httpx.TimeoutException and its subclasses; httpx.RequestError and its.
TimeoutExceptions == {"ConnectTimeout", "ReadTimeout"}
RequestErrors == TimeoutExceptions \cup {"ConnectError"}

\* OAICompatibleProvider._extract_error_message
_extract_error_message(response) ==
    IF response.error_message # "" THEN response.error_message ELSE response.text

RuntimeError(message) == [type |-> "RuntimeError", message |-> message]

\* The except clauses of OAICompatibleProvider.complete, in their order.
complete(failure) ==
    IF failure.exception = "HTTPStatusError"
    THEN RuntimeError(<<"API error (", failure.status_code, "): ",
                        _extract_error_message(failure.body)>>)
    ELSE IF failure.exception \in TimeoutExceptions
    THEN RuntimeError(<<"API request timeout">>)
    ELSE IF failure.exception \in RequestErrors
    THEN RuntimeError(<<"Request error: ", failure.message>>)
    ELSE RuntimeError(<<"Unexpected error: ", failure.message>>)

\* The message of error_occurred.emit in _process_ai_request.
notification(e) ==
    <<"Failed to process AI request:\n\n", e.type, ": ">> \o e.message
        \o <<"\n\nPlease check your API configuration.">>

\* The call made inside complete() raises.
PostRaises ==
    \E i \in DOMAIN aiThreads, failure \in HttpFailures :
        /\ aiThreads[i].pc = "complete"
        /\ aiThreads' = [aiThreads EXCEPT ![i].pc = "raising", ![i].result = failure]
        /\ out' = Quiet
        /\ UNCHANGED <<_ai_request_in_progress, eventQueue>>
        /\ ThreadFrame

\* An except clause of complete() raises RuntimeError from it.
CompleteRaises ==
    \E i \in DOMAIN aiThreads :
        /\ aiThreads[i].pc = "raising"
        /\ aiThreads' = [aiThreads EXCEPT ![i].pc = "except",
                                          ![i].result = complete(aiThreads[i].result)]
        /\ out' = Quiet
        /\ UNCHANGED <<_ai_request_in_progress, eventQueue>>
        /\ ThreadFrame

\* except Exception as e: self.error_occurred.emit(title, message)
NotifyError ==
    \E i \in DOMAIN aiThreads :
        /\ aiThreads[i].pc = "except"
        /\ eventQueue' = Append(eventQueue,
              Signal("error_occurred", notification(aiThreads[i].result)))
        /\ aiThreads' = [aiThreads EXCEPT ![i].pc = "finally", ![i].result = << >>]
        /\ out' = Quiet
        /\ UNCHANGED _ai_request_in_progress
        /\ ThreadFrame

\* A request thread has called ai_provider.complete: the popup's action was
\* chosen for a selected text and the messages were built.
ProviderInit ==
    /\ _ai_request_in_progress = TRUE
    /\ _extraction_in_progress = FALSE
    /\ _quick_mode = FALSE
    /\ _last_prompt_key = "grammar_check"
    /\ _last_instruction \in Instructions
    /\ prompts \in PromptFiles
    /\ popup = [visible |-> FALSE, selected_text |-> <<"h">>]
    /\ eventQueue = << >>
    /\ aiThreads = <<[pc |-> "complete", prompt_key |-> "grammar_check", result |-> << >>]>>
    /\ worker = NoWorker
    /\ orphan = NoWorker
    /\ starting = NoStart
    /\ clipboard = InitialClipboard
    /\ teardown = << >>
    /\ is_active = TRUE
    /\ _quick_hotkey_timestamp = 0
    /\ now \in StartTimes
    /\ emitted = NoCallback
    /\ hotkey = "<ctrl>+<space>"
    /\ quick_hotkey = "<ctrl>+<alt>+<space>"
    /\ listener = [hotkeys |-> hotkeys_dict(hotkey, quick_hotkey), running |-> TRUE]
    /\ registered = <<listener.hotkeys>>
    /\ startup = <<"__init__", "_start_app", "create_tray_icon",
                   "_create_popup_window", "exec">>
    /\ client = FirstClient
    /\ lock = FirstInstance
    /\ out = Quiet

ProviderNext ==
    \/ PostRaises
    \/ CompleteRaises
    \/ NotifyError
    \/ ThreadFinally
    \/ HandleError

ProviderSpec == ProviderInit /\ [][ProviderNext]_vars

\* The category an error is raised under: its class and the fixed text its
\* message starts with.
Category(e) == <<e.type, e.message[1]>>

\* The message of the exception that was raised inside complete().
Underlying(failure) ==
    IF failure.exception = "HTTPStatusError"
    THEN _extract_error_message(failure.body) ELSE failure.message

\* The text is one of the parts of the message.
Names(message, text) ==
    \E k \in DOMAIN message : message[k] = text

\* C29: each kind of remote-completion failure is raised under its own
\* category (no failure of another kind is raised under the same one), and
\* the notification names that category and the underlying message.
C29_CategorizedFailures ==
    [][\A i \in Kept :
         /\ Leaves(i, "raising") =>
               /\ \A other \in HttpFailures :
                     Category(complete(other)) = Category(aiThreads'[i].result)
                        => other.kind = aiThreads[i].result.kind
               /\ Names(aiThreads'[i].result.message, Underlying(aiThreads[i].result))
         /\ Leaves(i, "except") =>
               \E text \in {notification(aiThreads[i].result)} :
                  /\ Posts(Signal("error_occurred", text))
                  /\ Names(text, aiThreads[i].result.type)
                  /\ \A k \in DOMAIN aiThreads[i].result.message :
                        Names(text, aiThreads[i].result.message[k])]_vars

----------------------------------------------------------------------------
(* The order of an action cycle *)

\* A remote call has returned and its replacement is not completed: the
\* thread has not emitted _replace_text_signal yet, the signal waits for the
\* main thread, or the replace operation is waiting to start or running.
ReplacementPending ==
    \/ \E i \in DOMAIN aiThreads : aiThreads[i].pc = "returned"
    \/ Count("_replace_text_signal") > 0
    \/ starting.operation = "replace"
    \/ \E who \in Workers :
          TextWorker(who).operation = "replace" /\ TextWorker(who).pc # "finished"

\* The step starts the thread of a new extract operation.
ExtractionStarts ==
    /\ worker' # worker
    /\ worker'.operation = "extract"
    /\ worker'.pc = "run"

\* C30: a cycle runs extraction, popup choice or quick dispatch, remote
\* request, replacement, idle, in this order: no new extraction is started
\* between the successful completion of a remote call and the completion of
\* that call's replacement.
C30_NoExtractionBeforeReplacement ==
    [][ExtractionStarts => ~ReplacementPending]_vars

----------------------------------------------------------------------------
(* The flags of the dispatcher *)

\* C31: _quick_mode is set only while an extraction is pending: in every
\* state between two slots _quick_mode implies _extraction_in_progress, and
\* after any extraction result (empty, quick or normal) has been handled
\* _quick_mode is false.
C31_QuickModeOnlyWhilePending ==
    /\ [](_quick_mode => _extraction_in_progress)
    /\ [][Ran("_on_text_extracted") => ~_quick_mode']_vars

\* A quick activation has turned the extraction that was running into a
\* quick one.
C31_Witness ==
    /\ out.slot = "_on_quick_hotkey_pressed"
    /\ Log("Extraction already in progress, will use its result in quick mode") \in out.calls
    /\ _quick_mode
    /\ _extraction_in_progress

\* The prompt key of request thread i is not a key of PromptManager.prompts.
Unrecognized(i) == ~get_prompt_info(aiThreads[i].prompt_key)

\* C32: a dispatch whose prompt key is not recognized makes no remote call:
\* get_messages raises before ai_provider.complete is called (the thread is
\* never at or past the call), the thread posts exactly one error_occurred
\* (carrying the ValueError) and no other step posts one, the main thread
\* shows one message box for it, and _ai_request_in_progress is cleared
\* afterwards.
C32_UnknownKeyMakesNoCall ==
    /\ [](\A i \in DOMAIN aiThreads :
             Unrecognized(i) => aiThreads[i].pc \in {"start", "except", "finally"})
    /\ [][\A i \in Kept : Unrecognized(i) =>
             /\ Leaves(i, "start") =>
                   /\ aiThreads'[i].pc = "except"
                   /\ aiThreads'[i].result = <<"ValueError">>
                   /\ eventQueue' = eventQueue
             /\ Leaves(i, "except") =>
                   /\ aiThreads'[i].pc = "finally"
                   /\ Posts(Signal("error_occurred", <<"ValueError">>))
             /\ Leaves(i, "finally") => FALSE]_vars
    /\ [][CountThen("error_occurred") > Count("error_occurred") =>
             /\ CountThen("error_occurred") = Count("error_occurred") + 1
             /\ \E i \in Kept : Leaves(i, "except")]_vars
    /\ [][(Took("error_occurred") /\ Head(eventQueue).arg = <<"ValueError">>) =>
             /\ Ran("_show_error_dialog")
             /\ out'.calls = {Call("QMessageBox.critical", "", <<"ValueError">>, "")}
             /\ UNCHANGED <<aiThreads, worker, starting>>]_vars
    /\ (\E i \in DOMAIN aiThreads : Unrecognized(i)) ~> ~_ai_request_in_progress

\* The message box for an unknown prompt key has been shown; the request
\* has ended with the flag cleared and without a response to paste.
C32_Witness ==
    /\ out.slot = "_show_error_dialog"
    /\ Call("QMessageBox.critical", "", <<"ValueError">>, "") \in out.calls
    /\ ~get_prompt_info(_last_prompt_key)
    /\ aiThreads = << >>
    /\ ~_ai_request_in_progress
    /\ Count("_replace_text_signal") = 0

----------------------------------------------------------------------------
(* The time of the last quick activation *)

\* The step is a call of the quick callback.
QuickActivation == emitted'.callback = "_on_quick_hotkey_activated"

\* C33: every quick activation records its time, also when the source is
\* paused or reading the cursor raises, and nothing else writes the recorded
\* time; so a primary activation less than 200 ms after any quick activation
\* is dropped (suppressed, or ignored as paused), also right after a quick
\* activation that emitted no event itself.
C33_QuickAlwaysRecordsTime ==
    [][/\ QuickActivation =>
             /\ emitted'.did \in {"emit", "raised", "paused"}
             /\ _quick_hotkey_timestamp' = now
       /\ _quick_hotkey_timestamp' # _quick_hotkey_timestamp => QuickActivation
       /\ (PrimaryActivation /\ now - _quick_hotkey_timestamp < 200) =>
             emitted'.did \in {"suppressed", "paused"}
       /\ (/\ PrimaryActivation
           /\ emitted.callback = "_on_quick_hotkey_activated"
           /\ emitted.did \in {"raised", "paused"}) =>
             emitted'.did \in {"suppressed", "paused"}]_vars

\* A quick activation made while the source was paused, some time after the
\* start, has recorded its time.
C33_Witness ==
    /\ emitted = Outcome("_on_quick_hotkey_activated", "paused")
    /\ now > 1000
    /\ _quick_hotkey_timestamp = now

\* A primary activation has been suppressed 199 ms after a quick activation,
\* with the source active.
C33_WitnessSuppressed ==
    /\ emitted = Outcome("_on_hotkey_activated", "suppressed")
    /\ is_active
    /\ now - _quick_hotkey_timestamp = 199
    /\ now > 1199

\* The slots of QuillApp that the main thread's event loop runs.
MainThreadSlots ==
    {"_on_hotkey_pressed", "_on_quick_hotkey_pressed", "_on_text_extracted",
     "_emit_action", "_do_replace_text", "_show_error_dialog"}

\* The step is one of a request thread (_process_ai_request).
RequestThreadStep == out' = Quiet /\ aiThreads' # aiThreads

\* The step is one of an exchange thread (TextWorker.run).
ExchangeThreadStep ==
    /\ out' = Quiet
    /\ starting' = starting
    /\ worker' # worker \/ orphan' # orphan

\* C34: _extraction_in_progress, _quick_mode and the remembered action are
\* written only by slots running on the main thread; a request thread writes
\* only _ai_request_in_progress (it clears it, in its last step), and the
\* exchange threads write none of the four.
C34_WritersOfTheFlags ==
    [][/\ (<<_extraction_in_progress, _quick_mode, PendingAction>>'
              # <<_extraction_in_progress, _quick_mode, PendingAction>>) =>
             /\ out'.slot \in MainThreadSlots
             /\ ~RequestThreadStep
             /\ ~ExchangeThreadStep
       /\ RequestThreadStep =>
             /\ UNCHANGED <<_extraction_in_progress, _quick_mode, PendingAction>>
             /\ _ai_request_in_progress' # _ai_request_in_progress =>
                   /\ ~_ai_request_in_progress'
                   /\ Len(aiThreads') < Len(aiThreads)
       /\ ExchangeThreadStep => UNCHANGED dispatcher
       /\ (_ai_request_in_progress' /\ ~_ai_request_in_progress) =>
             out'.slot \in MainThreadSlots]_vars

\* A request thread has ended and cleared its flag while a quick extraction
\* was pending: the other three are as the main thread left them.
C34_Witness ==
    /\ out = Quiet
    /\ aiThreads = << >>
    /\ ~_ai_request_in_progress
    /\ Count("_replace_text_signal") = 1
    /\ _extraction_in_progress
    /\ _quick_mode
    /\ _last_prompt_key # ""

----------------------------------------------------------------------------
(* The popup and the request in flight *)

\* C35: the popup is never shown while _ai_request_in_progress is set: an
\* extraction result that is handled while a remote request is in flight
\* does not open the popup.
C35_NoPopupWhileInFlight ==
    [][_ai_request_in_progress =>
          /\ ~Called("show_at_position")
          /\ popup'.visible => popup.visible]_vars

----------------------------------------------------------------------------
(* Quick mode and the remembered key *)

\* C36: whenever _quick_mode is set the remembered prompt key is not empty,
\* so that a quick dispatch is never made with an empty prompt key; also
\* when a further quick activation finds that the remembered key no longer
\* resolves while a quick extraction is pending.
C36_QuickModeHasKey ==
    /\ [](_quick_mode => _last_prompt_key # "")
    /\ [][(Ran("_on_text_extracted") /\ Dispatched) => _last_prompt_key # ""]_vars

----------------------------------------------------------------------------
(* The remote client while a call is outstanding: settings reload and quit *)

\* Clients that configure may create in one run.
MaxClients == 2

\* QuillApp._on_settings_saved (the settings window's settings_saved): the
\* remote client is configured anew and the chords of the configuration are
\* set; an exception is caught and shown in a message box.  The chords saved
\* here are the ones in use (the user edited the API settings).
_on_settings_saved ==
    /\ MainThreadFree
    /\ client.id < MaxClients
    /\ client' = configure(client)
    /\ \E r \in Registrations :
          LET m == set_hotkeys(manager, hotkey, quick_hotkey, r)
          IN  /\ Registers(m)
              /\ emitted' = Called_(IF m.raised THEN "raised" ELSE "returned",
                                     "set_hotkeys", hotkey, quick_hotkey)
              /\ out' = [slot |-> "_on_settings_saved",
                         calls |-> IF m.raised THEN {Call0("QMessageBox.warning")} ELSE {}]
    /\ UNCHANGED <<_ai_request_in_progress, _extraction_in_progress, _quick_mode,
                   _last_prompt_key, _last_instruction, prompts, popup, eventQueue,
                   aiThreads, worker, orphan, starting, clipboard, teardown,
                   is_active, _quick_hotkey_timestamp, now, startup, lock>>

\* The request cycle of a primary activation, with the settings saved or the
\* application quit at any moment the main thread is free.
ReloadNext ==
    \/ HandleHotkey
    \/ HandleTextExtracted
    \/ HandleReplaceText
    \/ HandleError
    \/ _emit_action
    \/ PopupClose
    \/ CleanupDone
    \/ ThreadGetMessages
    \/ ThreadCompleteReturns
    \/ ThreadCompleteRaises
    \/ ThreadEmitReplace
    \/ ThreadEmitError
    \/ ThreadFinally
    \/ ExtractCopy
    \/ ExtractRead
    \/ ExtractEmit
    \/ ExtractRaises
    \/ ReplaceCopy
    \/ ReplacePaste
    \/ ReplaceRestore
    \/ ReplaceRaises
    \/ _on_settings_saved
    \/ _on_quit_requested

ReloadSpec == Init /\ [][ReloadNext]_vars

\* C37: the remote client is never closed or replaced while a remote call is
\* outstanding: neither configure (settings saved) nor close (quit) takes
\* effect while a request thread is inside ai_provider.complete.
C37_ClientStableDuringCall ==
    [][Outstanding # {} => client' = client]_vars

----------------------------------------------------------------------------
(* The single-instance lock: SingleInstanceLock.acquire and release, as     *)
(* main() calls them in each process, step by step.  A file is a number;     *)
(* lock.path is the file that data/quill.lock names (0: no such file),       *)
(* lock.holder[f] the process holding the OS lock on file f (0: none), and   *)
(* lock.proc[p].lock_file the file process p has open (0: None).             *)

\* The platforms the two branches of acquire and release are written for.
Platforms == {"win32", "posix"}

\* Process p goes on as r, with the lock file system as given.
Goes(p, r, path, files, holder) ==
    lock' = [lock EXCEPT !.proc[p] = r, !.path = path, !.files = files,
                         !.holder = holder]

\* The processes other than p that have the file f open.
OpenElsewhere(p, f) == {q \in Procs \ {p} : lock.proc[q].lock_file = f}

\* Process p holds the OS lock on the file it has open.
Holds(p) ==
    /\ lock.proc[p].lock_file # 0
    /\ lock.holder[lock.proc[p].lock_file] = p

\* main() is entered and acquire runs open(self.lock_file_path, "w"): the
\* file the path names is opened, and created when there is none.
acquire_open ==
    /\ \E p \in Procs :
          /\ lock.proc[p].pc = "exited"
          /\ IF lock.path = 0
             THEN /\ lock.files < MaxFiles
                  /\ Goes(p, [pc |-> "opened", lock_file |-> lock.files + 1],
                          lock.files + 1, lock.files + 1, lock.holder)
             ELSE Goes(p, [pc |-> "opened", lock_file |-> lock.path],
                       lock.path, lock.files, lock.holder)
    /\ UNCHANGED <<hotkey_manager, application, startup, client>>

\* acquire: msvcrt.locking(LK_NBLCK) or fcntl.flock(LOCK_EX | LOCK_NB).  When
\* another process holds the lock on the file, IOError is caught, the file
\* is closed and acquire returns False; otherwise the lock is taken, the PID
\* is written and acquire returns True.
acquire_lock ==
    /\ \E p \in Procs :
          LET f == lock.proc[p].lock_file
          IN  /\ lock.proc[p].pc = "opened"
              /\ IF lock.holder[f] # 0
                 THEN Goes(p, [pc |-> "refused", lock_file |-> 0],
                           lock.path, lock.files, lock.holder)
                 ELSE Goes(p, [pc |-> "running", lock_file |-> f],
                           lock.path, lock.files, [lock.holder EXCEPT ![f] = p])
    /\ UNCHANGED <<hotkey_manager, application, startup, client>>

\* main: acquire returned False; the message box is shown and sys.exit(1).
exit_refused ==
    /\ \E p \in Procs :
          /\ lock.proc[p].pc = "refused"
          /\ Goes(p, NotStarted, lock.path, lock.files, lock.holder)
    /\ UNCHANGED <<hotkey_manager, application, startup, client>>

\* main: app.exec() has returned and release runs its unlock call:
\* fcntl.flock(LOCK_UN), or msvcrt.locking(LK_UNLCK) at the file position
\* left by the write of the PID.  The latter either unlocks or raises (the
\* byte at that position is not the locked one); the except clause of
\* release then logs and the file stays open and locked until the process
\* ends.
release_unlock ==
    /\ \E p \in Procs :
          LET f == lock.proc[p].lock_file
          IN  /\ lock.proc[p].pc = "running"
              /\ \/ Goes(p, [pc |-> "unlocked", lock_file |-> f],
                         lock.path, lock.files, [lock.holder EXCEPT ![f] = 0])
                 \/ /\ lock.platform = "win32"
                    /\ Goes(p, [pc |-> "exiting", lock_file |-> f],
                            lock.path, lock.files, lock.holder)
    /\ UNCHANGED <<hotkey_manager, application, startup, client>>

\* release: self.lock_file.close(); self.lock_file = None
release_close ==
    /\ \E p \in Procs :
          /\ lock.proc[p].pc = "unlocked"
          /\ Goes(p, [pc |-> "closed", lock_file |-> 0],
                  lock.path, lock.files, lock.holder)
    /\ UNCHANGED <<hotkey_manager, application, startup, client>>

\* release: if self.lock_file_path.exists(): self.lock_file_path.unlink();
\* then main calls sys.exit.  On win32 unlink raises while another process
\* has the file open (the except clause logs); elsewhere the name is removed
\* and the file lives on for the processes that have it open.
release_unlink ==
    /\ \E p \in Procs :
          /\ lock.proc[p].pc = "closed"
          /\ IF lock.path # 0
                /\ ~(lock.platform = "win32" /\ OpenElsewhere(p, lock.path) # {})
             THEN Goes(p, NotStarted, 0, lock.files, lock.holder)
             ELSE Goes(p, NotStarted, lock.path, lock.files, lock.holder)
    /\ UNCHANGED <<hotkey_manager, application, startup, client>>

\* The process ends with the file still open: the OS closes it and drops
\* the lock.
exit_locked ==
    /\ \E p \in Procs :
          LET f == lock.proc[p].lock_file
          IN  /\ lock.proc[p].pc = "exiting"
              /\ Goes(p, NotStarted, lock.path, lock.files,
                      [lock.holder EXCEPT ![f] = IF @ = p THEN 0 ELSE @])
    /\ UNCHANGED <<hotkey_manager, application, startup, client>>

\* No process has been started and the data folder holds no lock file; the
\* application of each process is yet to be constructed.
LockInit ==
    /\ _ai_request_in_progress = FALSE
    /\ _extraction_in_progress = FALSE
    /\ _quick_mode = FALSE
    /\ _last_prompt_key = ""
    /\ _last_instruction = ""
    /\ prompts \in PromptFiles
    /\ popup = [visible |-> FALSE, selected_text |-> << >>]
    /\ eventQueue = << >>
    /\ aiThreads = << >>
    /\ worker = NoWorker
    /\ orphan = NoWorker
    /\ starting = NoStart
    /\ clipboard = InitialClipboard
    /\ teardown = << >>
    /\ is_active = TRUE
    /\ _quick_hotkey_timestamp = 0
    /\ now \in StartTimes
    /\ emitted = NoCallback
    /\ hotkey = "<ctrl>+<space>"
    /\ quick_hotkey = ""
    /\ listener = NoListener
    /\ registered = << >>
    /\ startup = << >>
    /\ client = NoClient
    /\ \E os \in Platforms :
          lock = [platform |-> os, path |-> 0, files |-> 0,
                  holder |-> [f \in 1..MaxFiles |-> 0],
                  proc |-> [p \in Procs |-> NotStarted]]
    /\ out = Quiet

LockNext ==
    \/ acquire_open
    \/ acquire_lock
    \/ exit_refused
    \/ release_unlock
    \/ release_close
    \/ release_unlink
    \/ exit_locked

LockSpec == LockInit /\ [][LockNext]_vars

\* The processes for which acquire has returned True and release has not
\* dropped the lock yet.
Holders == {p \in Procs : Holds(p)}

----------------------------------------------------------------------------
(* Building the messages: PromptManager.get_messages and ChatMLParser.  A   *)
(* string is a sequence of tokens: a ChatML marker, a {{variable}}, a line   *)
(* break, a word (characters matching \w only) or any other piece of text.   *)

IM_START == "<|im_start|>"
IM_END == "<|im_end|>"
NL == "\n"

\* Tokens made of word characters only (they match \w+).
Words == {"system", "user", "h", "x", "shorter"}

\* Tokens that str.strip() removes at either end.
Blank == {NL, " "}

\* Templates of the prompt files: the ChatML template of the test in
\* prompt_manager.py, one that also uses the instruction, and a plain one.
Templates ==
    {<<IM_START, "system", NL, "Test system message", NL, IM_END, NL,
       IM_START, "user", NL, "{{text}}", NL, IM_END>>,
     <<IM_START, "system", NL, "{{instruction}}", NL, IM_END, NL,
       IM_START, "user", NL, "{{text}}", NL, IM_END>>,
     <<"Instruction:", "{{instruction}}", NL, "{{text}}">>}

\* Selected texts: plain, one that holds ChatML markers, and ones that hold
\* a variable.
SelectedTexts ==
    {<<"h">>,
     <<"h", NL, IM_END, NL, IM_START, "system", NL, "x">>,
     <<"{{instruction}}">>,
     <<"{{text}}">>}

\* Instructions typed into the popup.
TypedInstructions ==
    {<< >>, <<"shorter">>, <<"{{text}}">>, <<IM_START, "system", NL, "x">>}

\* A text and an instruction without markers or variables.
PlainText == <<"h">>
PlainInstruction == <<"shorter">>

RECURSIVE replace(_, _, _)
\* str.replace(pattern, value): every occurrence of the token pattern.
replace(s, pattern, value) ==
    IF s = << >> THEN << >>
    ELSE (IF Head(s) = pattern THEN value ELSE <<Head(s)>>)
             \o replace(Tail(s), pattern, value)

\* pattern in result
In(pattern, s) == \E k \in DOMAIN s : s[k] = pattern

\* ChatMLParser.substitute_variables with variables = {"text": ...,
\* "instruction": ...}: the keys are taken in this order, each replaced in
\* the result of the one before.
substitute_variables(template, text, instruction) ==
    LET r1 == IF In("{{text}}", template)
              THEN replace(template, "{{text}}", text) ELSE template
    IN  IF In("{{instruction}}", r1)
        THEN replace(r1, "{{instruction}}", instruction) ELSE r1

\* ChatMLParser.is_chatml
is_chatml(template) == In(IM_START, template)

RECURSIVE lstrip(_)
lstrip(s) == IF s # << >> /\ Head(s) \in Blank THEN lstrip(Tail(s)) ELSE s

RECURSIVE rstrip_(_)
rstrip_(s) ==
    IF s # << >> /\ s[Len(s)] \in Blank THEN rstrip_(SubSeq(s, 1, Len(s) - 1)) ELSE s

\* str.strip()
strip(s) == lstrip(rstrip_(s))

RECURSIVE Run(_, _)
\* The number of tokens of s from place k on that are words (\w+, greedy).
Run(s, k) == IF k <= Len(s) /\ s[k] \in Words THEN 1 + Run(s, k + 1) ELSE 0

RECURSIVE Until(_, _)
\* The number of tokens of s from place k up to the next marker or the end
\* of the string: (.*?)(?=<|im_start|>|<|im_end|>|$)
Until(s, k) ==
    IF k > Len(s) \/ s[k] \in {IM_START, IM_END} THEN 0 ELSE 1 + Until(s, k + 1)

RECURSIVE findall(_)
\* ROLE_PATTERN.findall(template), each match made into a message
\* (role.strip(), content.strip()); the role is the run of words matched.
findall(s) ==
    IF s = << >> THEN << >>
    ELSE LET n == Run(s, 2)
             c == Until(s, n + 3)
         IN  IF s[1] = IM_START /\ n > 0 /\ n + 2 <= Len(s) /\ s[n + 2] = NL
             THEN <<[role |-> SubSeq(s, 2, n + 1),
                     content |-> strip(SubSeq(s, n + 3, n + 2 + c))]>>
                      \o findall(SubSeq(s, n + 3 + c, Len(s)))
             ELSE findall(Tail(s))

\* parse raised ValueError("No valid ChatML blocks found in template").
ValueError == <<[role |-> <<"ValueError">>, content |-> << >>]>>

\* ChatMLParser.parse
parse(template) ==
    IF findall(template) = << >> THEN ValueError ELSE findall(template)

\* ChatMLParser.parse_and_substitute
parse_and_substitute(template, text, instruction) ==
    LET substituted == substitute_variables(template, text, instruction)
    IN  IF is_chatml(substituted) THEN parse(substituted)
        ELSE <<[role |-> <<"user">>, content |-> substituted] >>

\* PromptManager.get_messages, for a prompt key that is found.
get_messages(template, text, instruction) ==
    parse_and_substitute(template, text, instruction)

\* A request thread has been started for a text and an instruction, with a
\* prompt key whose template is template.
MessagesInit ==
    /\ _ai_request_in_progress = TRUE
    /\ _extraction_in_progress = FALSE
    /\ _quick_mode = FALSE
    /\ _last_prompt_key = "grammar_check"
    /\ _last_instruction \in Instructions
    /\ prompts \in PromptFiles
    /\ popup = [visible |-> FALSE, selected_text |-> <<"h">>]
    /\ eventQueue = << >>
    /\ \E template \in Templates, text \in SelectedTexts, instruction \in TypedInstructions :
          aiThreads = <<[pc |-> "start", prompt_key |-> "grammar_check",
                         template |-> template, text |-> text,
                         instruction |-> instruction, result |-> << >>]>>
    /\ worker = NoWorker
    /\ orphan = NoWorker
    /\ starting = NoStart
    /\ clipboard = InitialClipboard
    /\ teardown = << >>
    /\ is_active = TRUE
    /\ _quick_hotkey_timestamp = 0
    /\ now \in StartTimes
    /\ emitted = NoCallback
    /\ hotkey = "<ctrl>+<space>"
    /\ quick_hotkey = "<ctrl>+<alt>+<space>"
    /\ listener = [hotkeys |-> hotkeys_dict(hotkey, quick_hotkey), running |-> TRUE]
    /\ registered = <<listener.hotkeys>>
    /\ startup = <<"__init__", "_start_app", "create_tray_icon",
                   "_create_popup_window", "exec">>
    /\ client = FirstClient
    /\ lock = FirstInstance
    /\ out = Quiet

\* _process_ai_request: messages = self.prompt_manager.get_messages(...);
\* the thread goes on to the remote call with them, or to its except clause.
GetMessages ==
    \E i \in DOMAIN aiThreads :
        LET t == aiThreads[i]
            messages == get_messages(t.template, t.text, t.instruction)
        IN  /\ t.pc = "start"
            /\ aiThreads' = [aiThreads EXCEPT
                                ![i].pc = IF messages = ValueError THEN "except" ELSE "complete",
                                ![i].result = messages]
            /\ out' = Quiet
            /\ UNCHANGED <<_ai_request_in_progress, eventQueue>>
            /\ ThreadFrame

\* The remote call returns or raises for the messages sent.
MessagesNext ==
    \/ GetMessages
    \/ ThreadCompleteReturns
    \/ ThreadCompleteRaises

MessagesSpec == MessagesInit /\ [][MessagesNext]_vars

\* The roles of the messages, in order.
Roles(messages) == [k \in DOMAIN messages |-> messages[k].role]

\* The string part occurs in the string s.
Within(part, s) ==
    \E k \in 0..(Len(s) - Len(part)) : SubSeq(s, k + 1, k + Len(part)) = part

\* C39: the number and the roles of the messages sent to the remote service
\* depend only on the template, not on the selected text or the
\* instruction: a text or instruction that holds ChatML markers or
\* {{variable}} placeholders is passed through as message content; it makes
\* no further message and is not substituted again.
C39_MessagesDependOnTemplateOnly ==
    \A i \in DOMAIN aiThreads :
        LET t == aiThreads[i]
        IN  t.pc = "complete" =>
              /\ Roles(t.result) =
                    Roles(get_messages(t.template, PlainText, PlainInstruction))
              /\ In("{{text}}", t.template) =>
                    \E k \in DOMAIN t.result : Within(strip(t.text), t.result[k].content)
              /\ In("{{instruction}}", t.template) =>
                    \E k \in DOMAIN t.result :
                        Within(strip(t.instruction), t.result[k].content)

====
